---- MODULE Spec2Model ----
(***************************************************************************)
(* VerbOS multi-agent state graph: one thread of the supervisor / worker   *)
(* graph with human-in-the-loop approval.                                  *)
(*                                                                         *)
(* The thread state is the set of LangGraph channels declared in state.ts. *)
(* A stream call runs node after node (one node per superstep) until END,  *)
(* the interrupt before human_approval, or the recursion limit.            *)
(* approveAction / denyAction write into the paused thread.                *)
(*                                                                         *)
(* The channel variables are the thread's latest checkpoint.  While the    *)
(* calls on a thread follow one another, the running stream call's own     *)
(* channel values are that checkpoint.  Calls that overlap are modelled    *)
(* with runs and deciders: every overlapping stream call computes on its   *)
(* own channel values and each of its steps writes the latest checkpoint.  *)
(*                                                                         *)
(* Nullable values are options: None is null/undefined, Some(x) a value.   *)
(***************************************************************************)
EXTENDS Integers, Sequences, FiniteSets, TLC

VARIABLES
  messages,             \* channel messages
  currentWorker,        \* channel currentWorker (option)
  next,                 \* channel next
  pendingAction,        \* channel pendingAction (option)
  awaitingApproval,     \* channel awaitingApproval
  finalResponse,        \* channel finalResponse (option)
  error,                \* channel error (option)
  iterationCount,       \* channel iterationCount
  workerIterationCount, \* channel workerIterationCount
  taskComplete,         \* channel taskComplete
  taskSummary,          \* channel taskSummary (option)
  nextNodes,            \* the checkpoint's next node to run (option)
  lastNode,             \* the node that wrote the last checkpoint (option)
  running,              \* a stream call is in progress
  steps,                \* supersteps executed by the stream call in progress
  events,               \* events emitted by the latest step of a stream call
  lastEvent,            \* last event emitted by the current / last stream call (option)
  toolLog,              \* every tool invocation made so far, in order
  nextId,               \* source of fresh ids (message ids, tool-call ids)
  fuel,                 \* exploration budget left
  runs,                 \* overlapping stream calls: slot -> the call's own state (option)
  deciders,             \* approve / deny handlers: slot -> the handler's position
  orch,                 \* AgentServiceGraph: the ask / resume call in progress
  saver                 \* SQLiteCheckpointer: the instance and the database it uses

chans == <<messages, currentWorker, next, pendingAction, awaitingApproval,
           finalResponse, error, iterationCount, workerIterationCount,
           taskComplete, taskSummary>>

vars == <<messages, currentWorker, next, pendingAction, awaitingApproval,
          finalResponse, error, iterationCount, workerIterationCount,
          taskComplete, taskSummary, nextNodes, lastNode, running, steps,
          events, lastEvent, toolLog, nextId, fuel, runs, deciders, orch, saver>>

\* everything but the orchestrator's call
graphVars == <<messages, currentWorker, next, pendingAction, awaitingApproval,
               finalResponse, error, iterationCount, workerIterationCount,
               taskComplete, taskSummary, nextNodes, lastNode, running, steps,
               events, lastEvent, toolLog, nextId, fuel, runs, deciders, saver>>

\* everything but the checkpointer
agentVars == <<messages, currentWorker, next, pendingAction, awaitingApproval,
               finalResponse, error, iterationCount, workerIterationCount,
               taskComplete, taskSummary, nextNodes, lastNode, running, steps,
               events, lastEvent, toolLog, nextId, fuel, runs, deciders, orch>>

----------------------------------------------------------------------------
(* Bounds of the exploration *)

\* Spec: every operation, short runs
MaxStreams == 3
MaxNodeSteps == 5
MaxToolCalls == 2
MaxFaults == 1
MaxCallsPerMessage == 2
\* SpecLoop: one stream call with room for a full worker self-loop
MaxLoopNodeSteps == 8
MaxLoopToolCalls == 1
MaxLoopFaults == 5
\* SpecCeiling: one stream call long enough to pass the iteration ceiling
MaxCeilingNodeSteps == 33
\* SpecExhaust: one stream call long enough to pass the recursion limit
MaxExhaustNodeSteps == 51
\* SpecContext: a long transcript, then one supervisor step
MaxTranscript == 21
MaxLongOutputs == 1
\* SpecStore: checkpointer operations on one database
MaxStoreOps == 3
MaxClock == 2
\* SpecOutcomes: tool calls with every kind of outcome
MaxOutcomeNodeSteps == 3
MaxOutcomeStreams == 2
MaxOutcomeToolCalls == 1
\* SpecShell: one turn of shell commands
MaxShellNodeSteps == 4
MaxShellStreams == 2
\* SpecOrchestrator: ask / resume calls and the graph events they consume
MaxOrchCalls == 2
MaxGraphEvents == 3
\* SpecConcurrent: calls on one thread that may overlap
MaxRuns == 2
MaxDeciders == 1
\* SpecDecide: approve / deny calls racing on one paused thread
MaxHandlers == 2
MaxDecideNodeSteps == 2
MaxConcStreams == 2
MaxConcNodeSteps == 2
MaxConcToolCalls == 1

----------------------------------------------------------------------------
(* Program constants *)

MAX_ITERATIONS == 15
MAX_WORKER_ITERATIONS == 5
MAX_TOOL_OUTPUT_LENGTH == 500
MAX_MESSAGES_FOR_SUPERVISOR == 20
RecursionLimit == 50

END == "__end__"
SUPERVISOR == "supervisor"
HUMAN_APPROVAL == "human_approval"
WORKER_NAMES == {"filesystem_worker", "system_worker", "researcher_worker", "code_worker"}

None == <<>>
Some(x) == <<x>>
Val(o) == o[1]
OrElse(o, d) == IF o = None THEN d ELSE o[1]

----------------------------------------------------------------------------
(* Messages *)

HumanMessage(c) ==
  [type |-> "human", id |-> 0, content |-> c, tool_calls |-> <<>>, tool_call_id |-> 0]

AIMessage(c, calls) ==
  [type |-> "ai", id |-> 0, content |-> c, tool_calls |-> calls, tool_call_id |-> 0]

ToolMessage(tcid, c) ==
  [type |-> "tool", id |-> 0, content |-> c, tool_calls |-> <<>>, tool_call_id |-> tcid]

\* messagesStateReducer: a message without an id gets a fresh one; a message
\* of the update whose id is already in the list replaces that entry in
\* place, any other message is appended.
NoId(msgs) == {j \in 1..Len(msgs) : msgs[j].id = 0}

AssignIds(msgs, base) ==
  [i \in 1..Len(msgs) |->
     IF msgs[i].id = 0
     THEN [msgs[i] EXCEPT !.id = base + Cardinality({j \in NoId(msgs) : j < i})]
     ELSE msgs[i]]

RECURSIVE MergeById(_, _)
MergeById(left, right) ==
  IF right = <<>> THEN left
  ELSE LET m == Head(right)
           at == {i \in 1..Len(left) : left[i].id = m.id}
       IN IF at # {}
          THEN MergeById([left EXCEPT ![CHOOSE i \in at : TRUE] = m], Tail(right))
          ELSE MergeById(Append(left, m), Tail(right))

messagesStateReducer(left, right, base) == MergeById(left, AssignIds(right, base))

\* iterationCount / workerIterationCount reducer: next ?? current + 1
iterationCountReducer(current, update) == OrElse(update, current + 1)

\* taskComplete reducer: next ?? false
taskCompleteReducer(current, update) == OrElse(update, FALSE)

\* variant: the update replaces the value, null included
taskSummaryReducer_Replace(current, update) == update

\* taskSummary reducer: next ?? current
taskSummaryReducer(current, update) == IF update = None THEN current ELSE update

----------------------------------------------------------------------------
(* Tools *)

Tools(w) ==
  CASE w = "filesystem_worker" ->
         {"list_directory", "read_file", "write_file", "create_directory", "delete_file"}
    [] w = "system_worker" -> {"get_system_info", "execute_shell_command"}
    [] w = "researcher_worker" ->
         {"summarize_context", "extract_facts", "analyze_code_context",
          "read_file", "list_directory"}
    [] w = "code_worker" ->
         {"analyze_code", "generate_code", "refactor_code", "explain_code",
          "read_file", "write_file", "list_directory"}

\* Tool arguments are a list of <<key, words>> pairs; a value is the list of
\* its whitespace-separated words.
ArgValue(args, key) ==
  LET at == {i \in 1..Len(args) : args[i][1] = key}
  IN IF at = {} THEN <<>> ELSE args[CHOOSE i \in at : TRUE][2]

\* variant: the commands of the moderate list are classified "moderate"
getCommandSensitivity_Moderate(command) ==
  LET commandBase == IF command = <<>> THEN "" ELSE command[1]
      sub == IF Len(command) < 2 THEN "" ELSE command[2]
      redirect == \E i \in 1..Len(command) : command[i] = ">"
  IN IF /\ commandBase \in {"ls", "dir", "cat", "type", "echo", "pwd", "ps",
                            "tasklist", "whoami", "ping"}
        /\ ~redirect
     THEN "safe"
     ELSE IF commandBase \in {"git", "npm", "npx", "yarn", "pnpm", "pip", "curl", "wget"}
     THEN IF /\ commandBase = "git"
             /\ sub \in {"status", "log", "diff", "branch", "remote", "show",
                         "ls-files", "ls-tree"}
          THEN "safe"
          ELSE IF /\ commandBase = "npm"
                  /\ sub \in {"list", "ls", "view", "info", "search", "outdated", "audit"}
          THEN "safe"
          ELSE "moderate"
     ELSE "sensitive"

getCommandSensitivity(command) ==
  LET commandBase == IF command = <<>> THEN "" ELSE command[1]
      sub == IF Len(command) < 2 THEN "" ELSE command[2]
      redirect == \E i \in 1..Len(command) : command[i] = ">"
  IN IF /\ commandBase \in {"ls", "dir", "cat", "type", "echo", "pwd", "ps",
                            "tasklist", "whoami", "ping"}
        /\ ~redirect
     THEN "safe"
     ELSE IF commandBase \in {"git", "npm", "npx", "yarn", "pnpm", "pip", "curl", "wget"}
     THEN IF /\ commandBase = "git"
             /\ sub \in {"status", "log", "diff", "branch", "remote", "show",
                         "ls-files", "ls-tree"}
          THEN "safe"
          ELSE IF /\ commandBase = "npm"
                  /\ sub \in {"list", "ls", "view", "info", "search", "outdated", "audit"}
          THEN "safe"
          ELSE "sensitive"
     ELSE "sensitive"

getToolSensitivity(toolName, toolArgs) ==
  IF toolName \in {"read_file", "list_directory"} THEN "safe"
  ELSE IF toolName \in {"write_file", "create_directory", "delete_file"} THEN "sensitive"
  ELSE IF toolName = "get_system_info" THEN "safe"
  ELSE IF toolName = "execute_shell_command"
  THEN IF ArgValue(toolArgs, "command") = <<>>
       THEN "sensitive"
       ELSE getCommandSensitivity(ArgValue(toolArgs, "command"))
  ELSE IF toolName \in {"analyze_code", "generate_code", "refactor_code", "explain_code"}
  THEN "safe"
  ELSE IF toolName \in {"summarize_context", "extract_facts", "analyze_code_context"}
  THEN "safe"
  ELSE "sensitive"

----------------------------------------------------------------------------
(* Worker step: BaseWorker.process and BaseWorker.executePendingAction *)

RECURSIVE Join(_, _)
Join(parts, sep) ==
  IF parts = <<>> THEN ""
  ELSE IF Len(parts) = 1 THEN parts[1]
  ELSE parts[1] \o sep \o Join(Tail(parts), sep)

Substring(s, n) == IF Len(s) > n THEN SubSeq(s, 1, n) ELSE s

describeAction(toolName, args) ==
  CASE toolName = "write_file" -> "Write to file: " \o Join(ArgValue(args, "path"), " ")
    [] toolName = "create_directory" -> "Create directory: " \o Join(ArgValue(args, "path"), " ")
    [] toolName = "delete_file" -> "Delete file: " \o Join(ArgValue(args, "path"), " ")
    [] toolName = "execute_shell_command" ->
         "Execute shell command: " \o Join(ArgValue(args, "command"), " ")
    [] OTHER -> "Execute " \o toolName \o " with args: "
                  \o Join([i \in 1..Len(args) |-> args[i][1] \o ":" \o Join(args[i][2], " ")], ",")

\* What a tool invocation yields: its output, or the message of the error it throws.
\*   "ok" a string result, "object" a result that is not a string,
\*   "throw" a thrown Error, "throwValue" a thrown value that is not an Error
ToolOutcomes == {"ok", "throw"}
AllToolOutcomes == {"ok", "object", "throw", "throwValue"}
ThrownValue == "disk full"
ToolOutput(toolName) == "output of " \o toolName
ToolErrorMessage == "tool failed"

\* JSON.stringify of a result that is not a string
Stringify(toolName) == "{\"output\":\"" \o ToolOutput(toolName) \o "\"}"

\* content of the tool message in process: a thrown value that is not an
\* Error is reported as String(error)
InvokeContent(toolName, outcome) ==
  CASE outcome = "ok" -> ToolOutput(toolName)
    [] outcome = "object" -> Stringify(toolName)
    [] outcome = "throw" -> "Error: " \o ToolErrorMessage
    [] outcome = "throwValue" -> "Error: " \o ThrownValue

\* content of the tool message in executePendingAction: a thrown value that
\* is not an Error is reported as 'Unknown error'
ApprovedContent(toolName, outcome) ==
  CASE outcome = "ok" -> ToolOutput(toolName)
    [] outcome = "object" -> Stringify(toolName)
    [] outcome = "throw" -> "Error: " \o ToolErrorMessage
    [] outcome = "throwValue" -> "Error: Unknown error"

\* SHELL_SECURITY_CONFIG.  A command is the list of its tokens.  A blocked
\* pattern without white space is a token of the command; one with white
\* space is a token followed by the next token (any token where the pattern
\* ends in white space); a backtick substitution is the token "<backticks>".
allowedCommands ==
  <<"npm", "npx", "yarn", "pnpm", "git", "ping", "curl", "wget", "ls", "dir",
    "cat", "type", "echo", "pwd", "ps", "tasklist", "whoami">>

blockedTokens ==
  {"$(", "<backticks>", ";", "&&", "||", "|", "\n", "mkfs", "shutdown", "reboot", "halt",
   "poweroff", "sudo", "passwd", "useradd", "userdel", "groupadd", "visudo",
   "crontab", "systemctl", "registry", "regedit"}

blockedPairs ==
  {<<"rm", "-rf">>, <<"del", "/s">>, <<"del", "/f">>, <<"del", "/q">>,
   <<"dd", "if=">>, <<">", "/dev/">>, <<"init", "0">>, <<"pkill", "-9">>,
   <<"chmod", "777">>, <<"chown", "root">>, <<"su", "-">>,
   <<"reg", "add">>, <<"reg", "delete">>, <<"reg", "import">>, <<"reg", "export">>}

blockedBeforeSpace == {"format", "service"}

blockedTriples == {<<"kill", "-9", "-1">>}

HasBlockedPattern(command) ==
  \/ \E i \in 1..Len(command) : command[i] \in blockedTokens
  \/ \E i \in 1..(Len(command) - 1) :
       \/ <<command[i], command[i + 1]>> \in blockedPairs
       \/ command[i] \in blockedBeforeSpace
  \/ \E i \in 1..(Len(command) - 2) :
       <<command[i], command[i + 1], command[i + 2]>> \in blockedTriples

IsWhitelisted(command) ==
  command # <<>> /\ \E k \in 1..Len(allowedCommands) : command[1] = allowedCommands[k]

\* variant: only the whitelist is checked
validateCommand_WhitelistOnly(command) ==
  IF command = <<>> THEN Some("Validation Error: Command cannot be empty")
  ELSE IF ~IsWhitelisted(command)
  THEN Some("Security Violation: Command '" \o command[1] \o "' is not in the whitelist. "
              \o "Allowed commands: " \o Join(allowedCommands, ", "))
  ELSE None

\* validateCommand: the message of the error it throws, or None
validateCommand(command) ==
  IF command = <<>> THEN Some("Validation Error: Command cannot be empty")
  ELSE IF ~IsWhitelisted(command)
  THEN Some("Security Violation: Command '" \o command[1] \o "' is not in the whitelist. "
              \o "Allowed commands: " \o Join(allowedCommands, ", "))
  ELSE IF HasBlockedPattern(command)
  THEN Some("Security Violation: Command contains a blocked pattern. "
              \o "This operation is not permitted for security reasons.")
  ELSE None

\* tool.invoke as process and executePendingAction use it: the content of
\* the tool message, and whether a shell process was spawned.  The shell
\* tool validates the command first and throws before exec.
\* outcome: what the invocation did (a rejected command throws an Error).
invokeTool(toolName, toolArgs, outcome) ==
  IF toolName = "execute_shell_command"
  THEN LET rejected == validateCommand(ArgValue(toolArgs, "command")) IN
       IF rejected # None
       THEN [content |-> "Error: " \o Val(rejected), spawned |-> FALSE, outcome |-> "throw"]
       ELSE [content |-> InvokeContent(toolName, outcome), spawned |-> TRUE,
             outcome |-> outcome]
  ELSE [content |-> InvokeContent(toolName, outcome), spawned |-> FALSE, outcome |-> outcome]

\* tool.invoke as executePendingAction uses it
invokeApproved(toolName, toolArgs, outcome) ==
  IF toolName = "execute_shell_command"
  THEN LET rejected == validateCommand(ArgValue(toolArgs, "command")) IN
       IF rejected # None
       THEN [content |-> "Error: " \o Val(rejected), spawned |-> FALSE, outcome |-> "throw"]
       ELSE [content |-> ApprovedContent(toolName, outcome), spawned |-> TRUE,
             outcome |-> outcome]
  ELSE [content |-> ApprovedContent(toolName, outcome), spawned |-> FALSE, outcome |-> outcome]

ArgsPreview(args) ==
  Join([i \in 1..(IF Len(args) < 2 THEN Len(args) ELSE 2) |->
          args[i][1] \o "=" \o Substring(Join(args[i][2], " "), 30)], ", ")

SummaryParts(msg) ==
  IF msg.type = "ai" /\ msg.tool_calls # <<>>
  THEN [i \in 1..Len(msg.tool_calls) |->
          "Called " \o msg.tool_calls[i].name \o "(" \o ArgsPreview(msg.tool_calls[i].args) \o ")"]
  ELSE IF msg.type = "tool"
  THEN << "Result: " \o (IF Len(msg.content) > 100
                         THEN SubSeq(msg.content, 1, 100) \o "..."
                         ELSE msg.content) >>
  ELSE <<>>

RECURSIVE AllSummaryParts(_)
AllSummaryParts(msgs) ==
  IF msgs = <<>> THEN <<>> ELSE SummaryParts(Head(msgs)) \o AllSummaryParts(Tail(msgs))

generateTaskSummary(name, msgs) ==
  IF AllSummaryParts(msgs) # <<>>
  THEN "[" \o name \o "] " \o Join(AllSummaryParts(msgs), " | ")
  ELSE "[" \o name \o "] Processed request"

\* variant: file deletion is run without approval
NeedsApproval_NoDelete(toolName, toolArgs) ==
  getToolSensitivity(toolName, toolArgs) = "sensitive" /\ toolName # "delete_file"

\* The worker's test that sends a tool call to approval.
NeedsApproval(toolName, toolArgs) == getToolSensitivity(toolName, toolArgs) = "sensitive"

\* variant: every sensitive call becomes the pending action, the last one wins
RECURSIVE ProcessCalls_LastWins(_, _, _, _, _)
ProcessCalls_LastWins(name, calls, outs, i, acc) ==
  IF i > Len(calls) THEN acc
  ELSE
    LET tc == calls[i] IN
    IF tc.name \notin Tools(name)
    THEN ProcessCalls_LastWins(name, calls, outs, i + 1,
           [acc EXCEPT !.messages =
              Append(@, ToolMessage(tc.id, "Error: Tool " \o tc.name \o " not found"))])
    ELSE IF NeedsApproval(tc.name, tc.args)
    THEN ProcessCalls_LastWins(name, calls, outs, i + 1,
           [acc EXCEPT
              !.pending = Some([id |-> tc.id, workerName |-> name,
                                toolName |-> tc.name, toolArgs |-> tc.args,
                                sensitivity |-> "sensitive",
                                description |-> describeAction(tc.name, tc.args)]),
              !.messages = Append(@, ToolMessage(tc.id, "[Awaiting user approval]"))])
    ELSE ProcessCalls_LastWins(name, calls, outs, i + 1,
           [acc EXCEPT
              !.invoked = Append(@, [id |-> tc.id, toolName |-> tc.name,
                                     toolArgs |-> tc.args, worker |-> name,
                                     via |-> "process",
                                     spawned |-> invokeTool(tc.name, tc.args, outs[i]).spawned,
                                     outcome |-> invokeTool(tc.name, tc.args, outs[i]).outcome]),
              !.messages = Append(@, ToolMessage(tc.id,
                                      invokeTool(tc.name, tc.args, outs[i]).content))])

\* The tool-call loop of process. acc = [messages, pending, invoked].
RECURSIVE ProcessCalls(_, _, _, _, _)
ProcessCalls(name, calls, outs, i, acc) ==
  IF i > Len(calls) THEN acc
  ELSE
    LET tc == calls[i] IN
    IF tc.name \notin Tools(name)
    THEN ProcessCalls(name, calls, outs, i + 1,
           [acc EXCEPT !.messages =
              Append(@, ToolMessage(tc.id, "Error: Tool " \o tc.name \o " not found"))])
    ELSE IF NeedsApproval(tc.name, tc.args)
    THEN IF acc.pending = None
         THEN ProcessCalls(name, calls, outs, i + 1,
                [acc EXCEPT
                   !.pending = Some([id |-> tc.id, workerName |-> name,
                                     toolName |-> tc.name, toolArgs |-> tc.args,
                                     sensitivity |-> "sensitive",
                                     description |-> describeAction(tc.name, tc.args)]),
                   !.messages = Append(@, ToolMessage(tc.id, "[Awaiting user approval]"))])
         ELSE ProcessCalls(name, calls, outs, i + 1,
                [acc EXCEPT !.messages =
                   Append(@, ToolMessage(tc.id, "[Queued - previous action awaiting approval]"))])
    ELSE ProcessCalls(name, calls, outs, i + 1,
           [acc EXCEPT
              !.invoked = Append(@, [id |-> tc.id, toolName |-> tc.name,
                                     toolArgs |-> tc.args, worker |-> name,
                                     via |-> "process",
                                     spawned |-> invokeTool(tc.name, tc.args, outs[i]).spawned,
                                     outcome |-> invokeTool(tc.name, tc.args, outs[i]).outcome]),
              !.messages = Append(@, ToolMessage(tc.id,
                                      invokeTool(tc.name, tc.args, outs[i]).content))])

\* A tool call without an id gets a generated one (ids come from base upward).
WithIds(calls, base) ==
  [i \in 1..Len(calls) |-> [calls[i] EXCEPT !.id = base + i - 1]]

\* process: resp is what the bound model does, [kind, content, calls, outs]
\*   kind "reply": an assistant message with content and tool calls
\*   kind "throw": the invocation throws
process(name, resp, base) ==
  IF resp.kind = "throw"
  THEN [messages |-> << AIMessage("Worker " \o name \o " encountered an error: model failed", <<>>) >>,
        pendingAction |-> None, awaitingApproval |-> FALSE,
        taskComplete |-> None, taskSummary |-> None, invoked |-> <<>>]
  ELSE
    LET calls == WithIds(resp.calls, base)
        response == AIMessage(resp.content, calls)
        loop == ProcessCalls(name, calls, resp.outs, 1,
                  [messages |-> <<response>>, pending |-> None, invoked |-> <<>>])
    IN IF calls # <<>> /\ loop.pending # None
       THEN [messages |-> loop.messages,
             pendingAction |-> loop.pending, awaitingApproval |-> TRUE,
             taskComplete |-> None, taskSummary |-> None, invoked |-> loop.invoked]
       ELSE [messages |-> loop.messages,
             pendingAction |-> None, awaitingApproval |-> FALSE,
             taskComplete |-> Some(calls = <<>>),
             taskSummary |-> Some(generateTaskSummary(name, loop.messages)),
             invoked |-> loop.invoked]

\* variant: the stored arguments are not passed to the tool
executePendingAction_NoArgs(name, action, outcome) ==
  [messages |-> << ToolMessage(action.id, invokeApproved(action.toolName, <<>>, outcome).content) >>,
   invoked |-> << [id |-> action.id, toolName |-> action.toolName,
                   toolArgs |-> <<>>, worker |-> name, via |-> "approve",
                   spawned |-> invokeApproved(action.toolName, <<>>, outcome).spawned,
                   outcome |-> invokeApproved(action.toolName, <<>>, outcome).outcome] >>]

\* executePendingAction: the owning worker runs the stored call.
executePendingAction(name, action, outcome) ==
  IF action.toolName \notin Tools(name)
  THEN [messages |-> << ToolMessage(action.id, "Error: Tool " \o action.toolName \o " not found") >>,
        invoked |-> <<>>]
  ELSE [messages |-> << ToolMessage(action.id,
                          invokeApproved(action.toolName, action.toolArgs, outcome).content) >>,
        invoked |-> << [id |-> action.id, toolName |-> action.toolName,
                        toolArgs |-> action.toolArgs, worker |-> name,
                        via |-> "approve",
                        spawned |-> invokeApproved(action.toolName, action.toolArgs,
                                                   outcome).spawned,
                        outcome |-> invokeApproved(action.toolName, action.toolArgs,
                                                   outcome).outcome] >>]

----------------------------------------------------------------------------
(* Supervisor: Supervisor.route *)

MaxStepsMessage == "I apologize, but I reached the maximum number of steps for this task. Please try breaking down your request into smaller parts."
RoutingFailedMessage == "I encountered an error while processing your request. Please try again."

\* What the routing model does: it throws, or returns a decision.
Decisions ==
  {[kind |-> "throw", next |-> "FINISH", finalResponse |-> None]}
    \cup {[kind |-> "decide", next |-> w, finalResponse |-> None] : w \in WORKER_NAMES}
    \cup {[kind |-> "decide", next |-> "FINISH", finalResponse |-> f] :
            f \in {None, Some(""), Some("All done.")}}

SystemMessage(c) ==
  [type |-> "system", id |-> 0, content |-> c, tool_calls |-> <<>>, tool_call_id |-> 0]

\* filterMessagesForSupervisor: a long tool output is cut
filterMessagesForSupervisor(msgs) ==
  [i \in 1..Len(msgs) |->
     IF msgs[i].type = "tool" /\ Len(msgs[i].content) > MAX_TOOL_OUTPUT_LENGTH
     THEN ToolMessage(msgs[i].tool_call_id,
                      SubSeq(msgs[i].content, 1, MAX_TOOL_OUTPUT_LENGTH) \o "... [truncated]")
     ELSE msgs[i]]

\* pruneMessages: the most recent maxCount messages
pruneMessages(msgs, maxCount) ==
  IF Len(msgs) <= maxCount THEN msgs
  ELSE SubSeq(msgs, Len(msgs) - maxCount + 1, Len(msgs))

DecideDirective == "Based on the conversation above, decide the next action. If the task is complete, provide a final response."

\* the messages that route passes to the routing model
supervisorMessages(msgs, summary) ==
  LET prunedMessages == pruneMessages(filterMessagesForSupervisor(msgs),
                                      MAX_MESSAGES_FOR_SUPERVISOR)
      contextMessages ==
        IF OrElse(summary, "") # ""
        THEN << HumanMessage("[Previous Task Summary]: " \o Val(summary)) >> \o prunedMessages
        ELSE prunedMessages
  IN << SystemMessage("supervisor system prompt") >> \o contextMessages
       \o << HumanMessage(DecideDirective) >>

\* variant: FINISH passes the model's finalResponse on as it is
route_NoDefault(count, err, decision) ==
  IF count >= MAX_ITERATIONS
  THEN [next |-> END, finalResponse |-> Some(MaxStepsMessage), currentWorker |-> None]
  ELSE IF OrElse(err, "") # ""
  THEN [next |-> END, finalResponse |-> Some("An error occurred: " \o Val(err)),
        currentWorker |-> None]
  ELSE IF decision.kind = "throw"
  THEN [next |-> END, finalResponse |-> Some(RoutingFailedMessage), currentWorker |-> None]
  ELSE IF decision.next = "FINISH"
  THEN [next |-> END, finalResponse |-> decision.finalResponse, currentWorker |-> None]
  ELSE [next |-> decision.next, finalResponse |-> None, currentWorker |-> Some(decision.next)]

route(count, err, decision) ==
  IF count >= MAX_ITERATIONS
  THEN [next |-> END, finalResponse |-> Some(MaxStepsMessage), currentWorker |-> None]
  ELSE IF OrElse(err, "") # ""
  THEN [next |-> END, finalResponse |-> Some("An error occurred: " \o Val(err)),
        currentWorker |-> None]
  ELSE IF decision.kind = "throw"
  THEN [next |-> END, finalResponse |-> Some(RoutingFailedMessage), currentWorker |-> None]
  ELSE IF decision.next = "FINISH"
  THEN [next |-> END,
        finalResponse |-> Some(IF OrElse(decision.finalResponse, "") # ""
                               THEN Val(decision.finalResponse) ELSE "Task completed."),
        currentWorker |-> None]
  ELSE [next |-> decision.next, finalResponse |-> None, currentWorker |-> Some(decision.next)]

----------------------------------------------------------------------------
(* Graph: nodes, edges, events *)

\* variant: the supervisor node writes the count back as it found it
supervisorIterationCount_Keep(count) == count

\* supervisor node: the iteration count it writes
supervisorIterationCount(count) == count + 1

\* supervisor out-edge
supervisorEdge(nxt) == IF nxt = END THEN None ELSE Some(nxt)

\* variant: the worker gives up the floor whenever it does not self-loop
workerCurrentWorker_Release(workerName, awaiting, complete) ==
  IF awaiting THEN None
  ELSE IF ~complete THEN Some(workerName)
  ELSE None

\* worker node: the currentWorker it writes
workerCurrentWorker(workerName, awaiting, complete) ==
  IF awaiting THEN Some(workerName)
  ELSE IF ~complete THEN Some(workerName)
  ELSE None

\* variant: a worker that awaits approval hands back to the supervisor
workerToNextConditional_NoInterrupt(workerName, awaiting, complete, workerCount) ==
  IF awaiting \/ complete THEN SUPERVISOR
  ELSE IF workerCount >= MAX_WORKER_ITERATIONS THEN SUPERVISOR
  ELSE workerName

\* variant: the self-loop limit is tested with > instead of >=
workerToNextConditional_OffByOne(workerName, awaiting, complete, workerCount) ==
  IF awaiting THEN HUMAN_APPROVAL
  ELSE IF complete THEN SUPERVISOR
  ELSE IF workerCount > MAX_WORKER_ITERATIONS THEN SUPERVISOR
  ELSE workerName

\* variant: the self-loop limit is tested before the approval flag
workerToNextConditional_LimitFirst(workerName, awaiting, complete, workerCount) ==
  IF workerCount >= MAX_WORKER_ITERATIONS THEN SUPERVISOR
  ELSE IF awaiting THEN HUMAN_APPROVAL
  ELSE IF complete THEN SUPERVISOR
  ELSE workerName

\* worker out-edge
workerToNextConditional(workerName, awaiting, complete, workerCount) ==
  IF awaiting THEN HUMAN_APPROVAL
  ELSE IF complete THEN SUPERVISOR
  ELSE IF workerCount >= MAX_WORKER_ITERATIONS THEN SUPERVISOR
  ELSE workerName

\* processEvent: the events of one node update
MessageEvents(msg) ==
  (IF msg.tool_calls # <<>>
   THEN << [type |-> "tool_call",
            data |-> [i \in 1..Len(msg.tool_calls) |->
                        [name |-> msg.tool_calls[i].name, args |-> msg.tool_calls[i].args]]] >>
   ELSE <<>>)
  \o (IF msg.type = "tool" THEN << [type |-> "tool_result", data |-> msg.content] >> ELSE <<>>)

RECURSIVE MessagesEvents(_)
MessagesEvents(msgs) ==
  IF msgs = <<>> THEN <<>> ELSE MessageEvents(Head(msgs)) \o MessagesEvents(Tail(msgs))

\* variant: the events of the messages come before worker_started / routing
processEvent_MessagesFirst(nodeName, updNext, updMessages) ==
  MessagesEvents(updMessages)
  \o (IF nodeName \in WORKER_NAMES
      THEN << [type |-> "worker_started", data |-> nodeName] >> ELSE <<>>)
  \o (IF nodeName = SUPERVISOR /\ updNext # END
      THEN << [type |-> "routing", data |-> updNext] >> ELSE <<>>)

processEvent(nodeName, updNext, updMessages) ==
  (IF nodeName \in WORKER_NAMES
   THEN << [type |-> "worker_started", data |-> nodeName] >> ELSE <<>>)
  \o (IF nodeName = SUPERVISOR /\ updNext # END
      THEN << [type |-> "routing", data |-> updNext] >> ELSE <<>>)
  \o MessagesEvents(updMessages)

\* The last event a stream call has emitted so far.
LastOf(emitted, previous) ==
  IF emitted = <<>> THEN previous ELSE Some(emitted[Len(emitted)])

----------------------------------------------------------------------------
(* What the environment can do *)

Inputs == {"hello", ""}

CallChoices ==
  { [id |-> 0, name |-> "read_file", args |-> << <<"path", <<"a.txt">> >> >>],
    [id |-> 0, name |-> "write_file",
     args |-> << <<"path", <<"a.txt">> >>, <<"content", <<"hello">> >> >>],
    [id |-> 0, name |-> "delete_file", args |-> << <<"path", <<"a.txt">> >> >>],
    [id |-> 0, name |-> "execute_shell_command", args |-> << <<"command", <<"ls">> >> >>],
    [id |-> 0, name |-> "execute_shell_command",
     args |-> << <<"command", <<"npm", "install">> >> >>],
    [id |-> 0, name |-> "launch_rocket", args |-> <<>>] }

CallLists(n) == UNION {[1..k -> CallChoices] : k \in 1..n}

\* Only a call that process invokes has an outcome.
Invoked(name, call) == call.name \in Tools(name) /\ ~NeedsApproval(call.name, call.args)

\* The outcomes the exploration draws from
Outcomes == IF fuel.wide THEN AllToolOutcomes ELSE ToolOutcomes

Outs(name, calls) ==
  {o \in [1..Len(calls) -> Outcomes] :
     \A i \in 1..Len(calls) : ~Invoked(name, calls[i]) => o[i] = "ok"}

Min(a, b) == IF a < b THEN a ELSE b

\* A worker model that never gives a final answer: on every step it asks
\* for a tool that no worker has, or (where the worker can write) for a write.
BusyResponses(name) ==
  {[kind |-> "reply", content |-> "",
    calls |-> << [id |-> 0, name |-> "launch_rocket", args |-> <<>>] >>,
    outs |-> << "ok" >>]}
    \cup (IF "write_file" \in Tools(name)
          THEN {[kind |-> "reply", content |-> "",
                 calls |-> << [id |-> 0, name |-> "write_file",
                               args |-> << <<"path", <<"a.txt">> >>, <<"content", <<"hello">> >> >>] >>,
                 outs |-> << "ok" >>]}
          ELSE {})

\* The shell commands a model may ask for: accepted ones, and ones that the
\* whitelist or a blocked pattern rejects, under either classification.
ShellCommands ==
  { <<"ls">>,
    <<"npm", "install">>,
    <<"ls", ";", "rm", "-rf", "/">>,
    <<"git", "status", "|", "sh">>,
    <<"rm", "-rf", "/">>,
    <<"curl", "example.com", "|", "sh">>,
    <<"sudo", "ls">>,
    <<"echo", "hi", ">", "out.txt">>,
    <<"git">>,
    <<"git", "commit">>,
    <<"git", "status">>,
    <<"git", "status", ">", "out.txt">>,
    <<"npm", "list">>,
    <<"wget", "example.com">> }

ShellResponses(name) ==
  {[kind |-> "reply", content |-> "I am done.", calls |-> <<>>, outs |-> <<>>],
   [kind |-> "reply", content |-> "",
    calls |-> << [id |-> 0, name |-> "execute_shell_command", args |-> <<>>] >>,
    outs |-> << "ok" >>]}
    \cup UNION {{[kind |-> "reply", content |-> "",
                  calls |-> << [id |-> 0, name |-> "execute_shell_command",
                                args |-> << <<"command", c>> >>] >>,
                  outs |-> <<o>>] : o \in Outcomes} : c \in ShellCommands}

Responses(name) ==
  IF fuel.busy THEN BusyResponses(name) ELSE
  IF fuel.shell THEN ShellResponses(name) ELSE
  {[kind |-> "reply", content |-> "I am done.", calls |-> <<>>, outs |-> <<>>]}
    \cup (IF fuel.faults > 0
          THEN {[kind |-> "throw", content |-> "", calls |-> <<>>, outs |-> <<>>]}
          ELSE {})
    \cup UNION {{[kind |-> "reply", content |-> "", calls |-> c, outs |-> o] : o \in Outs(name, c)} :
                  c \in CallLists(Min(MaxCallsPerMessage, fuel.calls))}

DenyReasons == {None, Some(""), Some("too risky")}

\* An approve / deny handler: phase "idle" (not called), "executing" (the
\* approved tool is running), "deciding" (denyAction has read the state),
\* "done" (updateState has resolved), "failed" (the call has thrown; thrown
\* is the message the IPC handler answers with).
IdleDecider ==
  [phase |-> "idle", kind |-> "none", writes |-> <<>>, committed |-> FALSE, thrown |-> None]

\* AgentServiceGraph before a call: pc "idle"; "streaming" while
\* processStream consumes graph events; "returned" when the call has ended.
\* out: the agent events passed to onEvent; saved: the messages added to the
\* history store; finalResponse: processStream's local.
IdleOrchestrator ==
  [pc |-> "idle", out |-> <<>>, saved |-> <<>>, finalResponse |-> "",
   left |-> MaxGraphEvents, calls |-> MaxOrchCalls]

\* a checkpointer that has not run setup, on a database without tables
FreshSaver ==
  [isSetup |-> FALSE, checkpointColumns |-> None, writeColumns |-> None,
   checkpoints |-> {}, writes |-> {}, now |-> 1, rowid |-> 0, ops |-> 0,
   op |-> [name |-> "none"]]

----------------------------------------------------------------------------
(* State after construction: an empty thread, channels at their defaults *)

InitChannels ==
  /\ messages = <<>>
  /\ currentWorker = None
  /\ next = SUPERVISOR
  /\ pendingAction = None
  /\ awaitingApproval = FALSE
  /\ finalResponse = None
  /\ error = None
  /\ iterationCount = 0
  /\ workerIterationCount = 0
  /\ taskComplete = FALSE
  /\ taskSummary = None
  /\ nextNodes = None
  /\ lastNode = None
  /\ running = FALSE
  /\ steps = 0
  /\ events = <<>>
  /\ lastEvent = None
  /\ toolLog = <<>>
  /\ nextId = 1
  /\ runs = [r \in 1..MaxRuns |-> None]
  /\ orch = IdleOrchestrator

InitThread ==
  /\ InitChannels
  /\ deciders = [d \in 1..MaxDeciders |-> IdleDecider]

Init ==
  /\ InitThread
  /\ saver = FreshSaver
  /\ fuel = [streams |-> MaxStreams, nodes |-> MaxNodeSteps,
             calls |-> MaxToolCalls, faults |-> MaxFaults, busy |-> FALSE, shell |-> FALSE, wide |-> FALSE]

----------------------------------------------------------------------------
(* VerbOSGraph.stream: entry.  The input is applied to the channels and the *)
(* run starts at the entry edge START -> supervisor.                        *)

StreamStart ==
  \E input \in Inputs :
    /\ ~running
    /\ fuel.streams > 0
    /\ IF nextNodes # None /\ awaitingApproval
       THEN /\ awaitingApproval' = FALSE
            /\ pendingAction' = None
            /\ UNCHANGED <<messages, iterationCount, workerIterationCount, taskComplete,
                           taskSummary, error, finalResponse, nextId>>
       ELSE /\ messages' = messagesStateReducer(messages, << HumanMessage(input) >>, nextId)
            /\ nextId' = nextId + 1
            /\ iterationCount' = iterationCountReducer(iterationCount, Some(0))
            /\ workerIterationCount' = iterationCountReducer(workerIterationCount, Some(0))
            /\ taskComplete' = taskCompleteReducer(taskComplete, Some(FALSE))
            /\ taskSummary' = taskSummaryReducer(taskSummary, None)
            /\ error' = None
            /\ finalResponse' = None
            /\ UNCHANGED <<awaitingApproval, pendingAction>>
    /\ nextNodes' = Some(SUPERVISOR)
    /\ lastNode' = Some("__start__")
    /\ running' = TRUE
    /\ steps' = 0
    /\ events' = <<>>
    /\ lastEvent' = None
    /\ fuel' = [fuel EXCEPT !.streams = @ - 1]
    /\ UNCHANGED <<currentWorker, next, toolLog, runs, deciders, orch, saver>>

\* supervisor node
SupervisorNode ==
  \E decision \in Decisions :
    \E result \in {route(iterationCount, error, decision)} :
    /\ running
    /\ steps < RecursionLimit
    /\ fuel.nodes > 0
    /\ nextNodes = Some(SUPERVISOR)
    /\ next' = result.next
    /\ finalResponse' = result.finalResponse
    /\ currentWorker' = result.currentWorker
    /\ iterationCount' =
         iterationCountReducer(iterationCount, Some(supervisorIterationCount(iterationCount)))
    /\ workerIterationCount' = iterationCountReducer(workerIterationCount, Some(0))
    /\ taskComplete' = taskCompleteReducer(taskComplete, Some(FALSE))
    /\ nextNodes' = supervisorEdge(result.next)
    /\ lastNode' = Some(SUPERVISOR)
    /\ steps' = steps + 1
    /\ events' = processEvent(SUPERVISOR, result.next, <<>>)
    /\ lastEvent' = LastOf(processEvent(SUPERVISOR, result.next, <<>>), lastEvent)
    /\ fuel' = [fuel EXCEPT !.nodes = @ - 1]
    /\ UNCHANGED <<messages, pendingAction, awaitingApproval, error, taskSummary,
                   running, toolLog, nextId, runs, deciders, orch, saver>>

\* worker node (createWorkerNode) followed by its out-edge
WorkerNode ==
  \E workerName \in WORKER_NAMES :
    /\ running
    /\ steps < RecursionLimit
    /\ fuel.nodes > 0
    /\ nextNodes = Some(workerName)
    /\ \E resp \in Responses(workerName) :
         \E result \in {process(workerName, resp, nextId)} :
         LET base == nextId + Len(resp.calls)
             complete == OrElse(result.taskComplete, FALSE)
             count == workerIterationCount + 1
         IN
         /\ messages' = messagesStateReducer(messages, result.messages, base)
         /\ nextId' = base + Len(result.messages)
         /\ pendingAction' = result.pendingAction
         /\ awaitingApproval' = result.awaitingApproval
         /\ currentWorker' = workerCurrentWorker(workerName, result.awaitingApproval, complete)
         /\ taskComplete' = taskCompleteReducer(taskComplete, Some(complete))
         /\ taskSummary' = taskSummaryReducer(taskSummary, result.taskSummary)
         /\ workerIterationCount' = iterationCountReducer(workerIterationCount, Some(count))
         /\ nextNodes' = Some(workerToNextConditional(workerName, result.awaitingApproval,
                                                      taskCompleteReducer(taskComplete, Some(complete)),
                                                      count))
         /\ toolLog' = toolLog \o result.invoked
         /\ events' = processEvent(workerName, next, AssignIds(result.messages, base))
         /\ lastEvent' = LastOf(processEvent(workerName, next, AssignIds(result.messages, base)),
                                lastEvent)
         /\ fuel' = [fuel EXCEPT !.nodes = @ - 1,
                                 !.calls = @ - Len(resp.calls),
                                 !.faults = @ - (IF resp.kind = "throw" THEN 1 ELSE 0)]
    /\ lastNode' = Some(workerName)
    /\ steps' = steps + 1
    /\ UNCHANGED <<next, finalResponse, error, iterationCount, running, runs, deciders, orch, saver>>

\* variant: the complete event carries the default text, not the stored response
finalEvents_DefaultText ==
  IF nextNodes # None /\ nextNodes # Some(HUMAN_APPROVAL)
  THEN << [type |-> "error", data |-> "Recursion limit reached"] >>
  ELSE IF awaitingApproval /\ pendingAction # None
  THEN << [type |-> "approval_required", data |-> Val(pendingAction)] >>
  ELSE IF OrElse(finalResponse, "") # ""
  THEN << [type |-> "complete", data |-> "Task completed."] >>
  ELSE <<>>

\* variant: a run stopped by the recursion limit ends without an event of its own
finalEvents_SilentLimit ==
  IF nextNodes # None /\ nextNodes # Some(HUMAN_APPROVAL)
  THEN <<>>
  ELSE IF awaitingApproval /\ pendingAction # None
  THEN << [type |-> "approval_required", data |-> Val(pendingAction)] >>
  ELSE IF OrElse(finalResponse, "") # ""
  THEN << [type |-> "complete", data |-> Val(finalResponse)] >>
  ELSE <<>>

\* VerbOSGraph.stream: the run has stopped (END, the interrupt before
\* human_approval, or the recursion limit); the final-state check.
finalEvents ==
  IF nextNodes # None /\ nextNodes # Some(HUMAN_APPROVAL)
  THEN << [type |-> "error", data |-> "Recursion limit reached"] >>
  ELSE IF awaitingApproval /\ pendingAction # None
  THEN << [type |-> "approval_required", data |-> Val(pendingAction)] >>
  ELSE IF OrElse(finalResponse, "") # ""
  THEN << [type |-> "complete", data |-> Val(finalResponse)] >>
  ELSE <<>>

StreamFinish ==
  /\ running
  /\ \/ nextNodes = None
     \/ nextNodes = Some(HUMAN_APPROVAL)
     \/ steps >= RecursionLimit
  /\ running' = FALSE
  /\ events' = finalEvents
  /\ lastEvent' = LastOf(finalEvents, lastEvent)
  /\ UNCHANGED <<chans, nextNodes, lastNode, steps, toolLog, nextId, fuel, runs, deciders, orch, saver>>

\* graph.updateState without asNode: the update is applied as a write of the
\* node that ran last, and that node's out-edge is evaluated on the new state.
updateStateNext(asNode, nxt, awaiting, complete, workerCount) ==
  IF asNode \in WORKER_NAMES
  THEN Some(workerToNextConditional(asNode, awaiting, complete, workerCount))
  ELSE IF asNode = SUPERVISOR THEN supervisorEdge(nxt)
  ELSE Some(SUPERVISOR)

\* VerbOSGraph.approveAction
ApproveAction ==
  \E outcome \in Outcomes :
    /\ ~running
    /\ pendingAction # None
    /\ currentWorker # None
    /\ Val(currentWorker) \in WORKER_NAMES
    /\ \E result \in {executePendingAction(Val(currentWorker), Val(pendingAction), outcome)} :
       /\ toolLog' = toolLog \o result.invoked
       /\ messages' = messagesStateReducer(messages, result.messages, nextId)
       /\ nextId' = nextId + Len(result.messages)
    /\ pendingAction' = None
    /\ awaitingApproval' = FALSE
    /\ nextNodes' = updateStateNext(Val(lastNode), next, FALSE, taskComplete, workerIterationCount)
    /\ UNCHANGED <<currentWorker, next, finalResponse, error, iterationCount,
                   workerIterationCount, taskComplete, taskSummary, lastNode, running,
                   steps, events, lastEvent, fuel, runs, deciders, orch, saver>>

\* variant: the reason is dropped from the denial message
denyMessage_NoReason(reason) == "Action denied"

\* VerbOSGraph.denyAction
denyMessage(reason) ==
  IF OrElse(reason, "") # "" THEN "Action denied by user: " \o Val(reason)
  ELSE "Action denied by user"

DenyAction ==
  \E reason \in DenyReasons :
    /\ ~running
    /\ pendingAction # None
    /\ messages' = messagesStateReducer(messages, << HumanMessage(denyMessage(reason)) >>, nextId)
    /\ nextId' = nextId + 1
    /\ pendingAction' = None
    /\ awaitingApproval' = FALSE
    /\ nextNodes' = updateStateNext(Val(lastNode), next, FALSE, taskComplete, workerIterationCount)
    /\ UNCHANGED <<currentWorker, next, finalResponse, error, iterationCount,
                   workerIterationCount, taskComplete, taskSummary, lastNode, running,
                   steps, events, lastEvent, toolLog, fuel, runs, deciders, orch, saver>>

Next ==
  \/ StreamStart
  \/ SupervisorNode
  \/ WorkerNode
  \/ StreamFinish
  \/ ApproveAction
  \/ DenyAction

Spec == Init /\ [][Next]_vars

\* One stream call in which a worker can fail or call tools step after step.
InitLoop ==
  /\ InitThread
  /\ saver = FreshSaver
  /\ fuel = [streams |-> 1, nodes |-> MaxLoopNodeSteps,
             calls |-> MaxLoopToolCalls, faults |-> MaxLoopFaults, busy |-> FALSE, shell |-> FALSE, wide |-> FALSE]

SpecLoop == InitLoop /\ [][Next]_vars

\* One long stream call of plain replies.
InitCeiling ==
  /\ InitThread
  /\ saver = FreshSaver
  /\ fuel = [streams |-> 1, nodes |-> MaxCeilingNodeSteps, calls |-> 0, faults |-> 0,
             busy |-> FALSE, shell |-> FALSE, wide |-> FALSE]

NextRun ==
  \/ StreamStart
  \/ SupervisorNode
  \/ WorkerNode
  \/ StreamFinish

SpecCeiling == InitCeiling /\ [][NextRun]_vars

\* One stream call in which no worker ever gives a final answer.
\* Shell commands of every kind, accepted and rejected
InitShell ==
  /\ InitThread
  /\ saver = FreshSaver
  /\ fuel = [streams |-> MaxShellStreams, nodes |-> MaxShellNodeSteps,
             calls |-> MaxShellNodeSteps, faults |-> 0, busy |-> FALSE, shell |-> TRUE, wide |-> FALSE]

SpecShell == InitShell /\ [][Next]_vars

\* Tool calls whose outcome is any of AllToolOutcomes
InitOutcomes ==
  /\ InitThread
  /\ saver = FreshSaver
  /\ fuel = [streams |-> MaxOutcomeStreams, nodes |-> MaxOutcomeNodeSteps,
             calls |-> MaxOutcomeToolCalls, faults |-> 0, busy |-> FALSE,
             shell |-> FALSE, wide |-> TRUE]

SpecOutcomes == InitOutcomes /\ [][Next]_vars

\* A thread with earlier turns: the transcript grows, then one stream call
\* makes one supervisor step.
X100 == "xxxxxxxxxxxxxxxxxxxxxxxxxxxxxxxxxxxxxxxxxxxxxxxxxxxxxxxxxxxxxxxxxxxxxxxxxxxxxxxxxxxxxxxxxxxxxxxxxxxx"
LongOutput == X100 \o X100 \o X100 \o X100 \o X100 \o "x"

InitContext ==
  /\ InitThread
  /\ saver = FreshSaver
  /\ fuel = [streams |-> 1, nodes |-> 1, calls |-> MaxLongOutputs, faults |-> 0,
             busy |-> FALSE, shell |-> FALSE, wide |-> FALSE]

\* what earlier turns left in the thread: a user message, or a worker's
\* long tool output with its task summary
EarlierTurn ==
  /\ ~running
  /\ fuel.streams = 1
  /\ Len(messages) < MaxTranscript
  /\ \/ /\ messages' = messagesStateReducer(messages, << HumanMessage("hello") >>, nextId)
        /\ UNCHANGED <<taskSummary, fuel>>
     \/ /\ fuel.calls > 0
        /\ messages' = messagesStateReducer(messages, << ToolMessage(nextId, LongOutput) >>, nextId)
        /\ taskSummary' = taskSummaryReducer(taskSummary, Some("read a file"))
        /\ fuel' = [fuel EXCEPT !.calls = @ - 1]
  /\ nextId' = nextId + 1
  /\ UNCHANGED <<currentWorker, next, pendingAction, awaitingApproval, finalResponse, error,
                 iterationCount, workerIterationCount, taskComplete, nextNodes, lastNode,
                 running, steps, events, lastEvent, toolLog, runs, deciders, orch, saver>>

NextContext ==
  \/ EarlierTurn
  \/ StreamStart
  \/ SupervisorNode
  \/ StreamFinish

SpecContext == InitContext /\ [][NextContext]_vars

\* Supervisor.route on its own: one supervisor step on a thread whose
\* iterationCount and error channels hold any value of their types.
RouteCounts == 0..(MAX_ITERATIONS + 1)
RouteErrors == {None, Some(""), Some("Something went wrong")}

InitRoute ==
  /\ messages = AssignIds(<< HumanMessage("hello") >>, 1)
  /\ currentWorker = None
  /\ next = SUPERVISOR
  /\ pendingAction = None
  /\ awaitingApproval = FALSE
  /\ finalResponse = None
  /\ error \in RouteErrors
  /\ iterationCount \in RouteCounts
  /\ workerIterationCount = 0
  /\ taskComplete = FALSE
  /\ taskSummary = None
  /\ nextNodes = Some(SUPERVISOR)
  /\ lastNode = Some("__start__")
  /\ running = TRUE
  /\ steps = 0
  /\ events = <<>>
  /\ lastEvent = None
  /\ toolLog = <<>>
  /\ nextId = 2
  /\ runs = [r \in 1..MaxRuns |-> None]
  /\ deciders = [d \in 1..MaxDeciders |-> IdleDecider]
  /\ orch = IdleOrchestrator
  /\ saver = FreshSaver
  /\ fuel = [streams |-> 0, nodes |-> 1, calls |-> 0, faults |-> 0,
             busy |-> FALSE, shell |-> FALSE, wide |-> FALSE]

NextRoute ==
  \/ SupervisorNode
  \/ StreamFinish

SpecRoute == InitRoute /\ [][NextRoute]_vars

InitExhaust ==
  /\ InitThread
  /\ saver = FreshSaver
  /\ fuel = [streams |-> 1, nodes |-> MaxExhaustNodeSteps, calls |-> MaxExhaustNodeSteps,
             faults |-> 0, busy |-> TRUE, shell |-> FALSE, wide |-> FALSE]

SpecExhaust == InitExhaust /\ [][NextRun]_vars

\* The same, with every model call and tool call returning: a stream call
\* that can take a step takes it.
SpecExhaustFair == InitExhaust /\ [][NextRun]_vars /\ WF_vars(NextRun)

----------------------------------------------------------------------------
(* Calls that overlap on one thread.  Every IPC call starts its own        *)
(* handler (index.ts); AgentServiceGraph and VerbOSGraph pass it on.  A     *)
(* handler gives way at every model call and tool call, so the steps of    *)
(* overlapping handlers interleave.                                        *)

\* The latest checkpoint of the thread.
Checkpoint ==
  [messages |-> messages, currentWorker |-> currentWorker, next |-> next,
   pendingAction |-> pendingAction, awaitingApproval |-> awaitingApproval,
   finalResponse |-> finalResponse, error |-> error,
   iterationCount |-> iterationCount, workerIterationCount |-> workerIterationCount,
   taskComplete |-> taskComplete, taskSummary |-> taskSummary,
   nextNodes |-> nextNodes, lastNode |-> lastNode]

\* A step of a run saves the run's channel values as the latest checkpoint.
putCheckpoint(st) ==
  /\ messages' = st.messages
  /\ currentWorker' = st.currentWorker
  /\ next' = st.next
  /\ pendingAction' = st.pendingAction
  /\ awaitingApproval' = st.awaitingApproval
  /\ finalResponse' = st.finalResponse
  /\ error' = st.error
  /\ iterationCount' = st.iterationCount
  /\ workerIterationCount' = st.workerIterationCount
  /\ taskComplete' = st.taskComplete
  /\ taskSummary' = st.taskSummary
  /\ nextNodes' = st.nextNodes
  /\ lastNode' = st.lastNode

\* stream: the input state applied to the checkpoint the call has read
streamInput(cur, input, base) ==
  IF cur.nextNodes # None /\ cur.awaitingApproval
  THEN [cur EXCEPT !.awaitingApproval = FALSE,
                   !.pendingAction = None,
                   !.nextNodes = Some(SUPERVISOR),
                   !.lastNode = Some("__start__")]
  ELSE [cur EXCEPT !.messages = messagesStateReducer(@, << HumanMessage(input) >>, base),
                   !.iterationCount = iterationCountReducer(@, Some(0)),
                   !.workerIterationCount = iterationCountReducer(@, Some(0)),
                   !.taskComplete = taskCompleteReducer(@, Some(FALSE)),
                   !.taskSummary = taskSummaryReducer(@, None),
                   !.error = None,
                   !.finalResponse = None,
                   !.nextNodes = Some(SUPERVISOR),
                   !.lastNode = Some("__start__")]

\* supervisor node on a run's channel values
supervisorWrites(st, decision) ==
  LET result == route(st.iterationCount, st.error, decision) IN
  [st EXCEPT !.next = result.next,
             !.finalResponse = result.finalResponse,
             !.currentWorker = result.currentWorker,
             !.iterationCount = iterationCountReducer(@, Some(supervisorIterationCount(@))),
             !.workerIterationCount = iterationCountReducer(@, Some(0)),
             !.taskComplete = taskCompleteReducer(@, Some(FALSE)),
             !.nextNodes = supervisorEdge(result.next),
             !.lastNode = Some(SUPERVISOR)]

\* worker node on a run's channel values
workerWrites(st, workerName, result, base) ==
  LET complete == OrElse(result.taskComplete, FALSE)
      count == st.workerIterationCount + 1
  IN
  [st EXCEPT !.messages = messagesStateReducer(@, result.messages, base),
             !.pendingAction = result.pendingAction,
             !.awaitingApproval = result.awaitingApproval,
             !.currentWorker = workerCurrentWorker(workerName, result.awaitingApproval, complete),
             !.taskComplete = taskCompleteReducer(@, Some(complete)),
             !.taskSummary = taskSummaryReducer(@, result.taskSummary),
             !.workerIterationCount = iterationCountReducer(@, Some(count)),
             !.nextNodes = Some(workerToNextConditional(workerName, result.awaitingApproval,
                                                        taskCompleteReducer(st.taskComplete, Some(complete)),
                                                        count)),
             !.lastNode = Some(workerName)]

\* stream: the final-state check of a run that stopped with stopNodes still
\* to run; it reads the latest checkpoint cp.
runFinalEvents(stopNodes, cp) ==
  IF stopNodes # None /\ stopNodes # Some(HUMAN_APPROVAL)
  THEN << [type |-> "error", data |-> "Recursion limit reached"] >>
  ELSE IF cp.awaitingApproval /\ cp.pendingAction # None
  THEN << [type |-> "approval_required", data |-> Val(cp.pendingAction)] >>
  ELSE IF OrElse(cp.finalResponse, "") # ""
  THEN << [type |-> "complete", data |-> Val(cp.finalResponse)] >>
  ELSE <<>>

\* variant: the handler answers the caller without waiting for updateState
HandlerReturned_NoAwait(h) == h.phase \in {"executing", "done"}

\* The approve / deny handler has answered its caller: approveAction and
\* denyAction await updateState, the IPC handler awaits them.
HandlerReturned(h) == h.phase = "done"

\* VerbOSGraph.stream, entry of a call in slot r
RunBegin(r, input) ==
  /\ runs[r] = None
  /\ fuel.streams > 0
  /\ \E st \in {streamInput(Checkpoint, input, nextId)} :
       /\ putCheckpoint(st)
       /\ nextId' = nextId + (Len(st.messages) - Len(messages))
       /\ runs' = [runs EXCEPT ![r] = Some([st |-> st, steps |-> 0, lastEvent |-> None])]
  /\ fuel' = [fuel EXCEPT !.streams = @ - 1]
  /\ UNCHANGED <<orch, saver, running, steps, events, lastEvent, toolLog>>

\* ask-agent / agent:resume called at any time
RunStart(r) ==
  \E input \in Inputs :
    /\ RunBegin(r, input)
    /\ UNCHANGED deciders

\* handleApprove / handleDeny: the resume is called once the approve / deny
\* call has answered
ResumeStart(r) ==
  \E d \in 1..MaxDeciders :
    /\ deciders[d].phase # "idle"
    /\ HandlerReturned(deciders[d])
    /\ RunBegin(r, "")
    /\ deciders' = [deciders EXCEPT ![d] = IdleDecider]

\* supervisor node of the call in slot r
RunSupervisor(r) ==
  \E decision \in Decisions :
    /\ runs[r] # None
    /\ Val(runs[r]).steps < RecursionLimit
    /\ fuel.nodes > 0
    /\ Val(runs[r]).st.nextNodes = Some(SUPERVISOR)
    /\ \E st \in {supervisorWrites(Val(runs[r]).st, decision)} :
         /\ putCheckpoint(st)
         /\ events' = processEvent(SUPERVISOR, st.next, <<>>)
         /\ runs' = [runs EXCEPT ![r] =
                       Some([st |-> st, steps |-> Val(runs[r]).steps + 1,
                             lastEvent |-> LastOf(processEvent(SUPERVISOR, st.next, <<>>),
                                                  Val(runs[r]).lastEvent)])]
    /\ fuel' = [fuel EXCEPT !.nodes = @ - 1]
    /\ UNCHANGED <<orch, saver, running, steps, lastEvent, toolLog, nextId, deciders>>

\* worker node of the call in slot r
RunWorker(r) ==
  \E workerName \in WORKER_NAMES :
    /\ runs[r] # None
    /\ Val(runs[r]).steps < RecursionLimit
    /\ fuel.nodes > 0
    /\ Val(runs[r]).st.nextNodes = Some(workerName)
    /\ \E resp \in Responses(workerName) :
         \E result \in {process(workerName, resp, nextId)} :
         \E st \in {workerWrites(Val(runs[r]).st, workerName, result, nextId + Len(resp.calls))} :
           /\ putCheckpoint(st)
           /\ nextId' = nextId + Len(resp.calls) + Len(result.messages)
           /\ toolLog' = toolLog \o result.invoked
           /\ events' = processEvent(workerName, st.next,
                                     AssignIds(result.messages, nextId + Len(resp.calls)))
           /\ runs' = [runs EXCEPT ![r] =
                         Some([st |-> st, steps |-> Val(runs[r]).steps + 1,
                               lastEvent |->
                                 LastOf(processEvent(workerName, st.next,
                                                     AssignIds(result.messages,
                                                               nextId + Len(resp.calls))),
                                        Val(runs[r]).lastEvent)])]
           /\ fuel' = [fuel EXCEPT !.nodes = @ - 1, !.calls = @ - Len(resp.calls)]
    /\ UNCHANGED <<orch, saver, running, steps, lastEvent, deciders>>

\* end of the call in slot r
RunFinish(r) ==
  /\ runs[r] # None
  /\ \/ Val(runs[r]).st.nextNodes = None
     \/ Val(runs[r]).st.nextNodes = Some(HUMAN_APPROVAL)
     \/ Val(runs[r]).steps >= RecursionLimit
  /\ events' = runFinalEvents(Val(runs[r]).st.nextNodes, Checkpoint)
  /\ lastEvent' = LastOf(runFinalEvents(Val(runs[r]).st.nextNodes, Checkpoint),
                         Val(runs[r]).lastEvent)
  /\ runs' = [runs EXCEPT ![r] = None]
  /\ UNCHANGED <<orch, saver, chans, nextNodes, lastNode, running, steps, toolLog, nextId, fuel, deciders>>

\* approveAction up to the call of the tool
ApproveBegin(d) ==
  \E outcome \in Outcomes :
    /\ deciders[d].phase = "idle"
    /\ pendingAction # None
    /\ currentWorker # None
    /\ Val(currentWorker) \in WORKER_NAMES
    /\ \E result \in {executePendingAction(Val(currentWorker), Val(pendingAction), outcome)} :
         /\ toolLog' = toolLog \o result.invoked
         /\ deciders' = [deciders EXCEPT ![d] =
                           [phase |-> "executing", kind |-> "approve",
                            writes |-> result.messages, committed |-> FALSE,
                            thrown |-> None]]
    /\ UNCHANGED <<orch, saver, chans, nextNodes, lastNode, running, steps, events, lastEvent,
                   nextId, fuel, runs>>

\* approveAction from the tool's return: updateState
ApproveEnd(d) ==
  /\ deciders[d].phase = "executing"
  /\ lastNode # None
  /\ messages' = messagesStateReducer(messages, deciders[d].writes, nextId)
  /\ nextId' = nextId + Len(deciders[d].writes)
  /\ pendingAction' = None
  /\ awaitingApproval' = FALSE
  /\ nextNodes' = updateStateNext(Val(lastNode), next, FALSE, taskComplete, workerIterationCount)
  /\ deciders' = [deciders EXCEPT ![d] = [@ EXCEPT !.phase = "done", !.committed = TRUE]]
  /\ UNCHANGED <<orch, saver, currentWorker, next, finalResponse, error, iterationCount,
                 workerIterationCount, taskComplete, taskSummary, lastNode, running,
                 steps, events, lastEvent, toolLog, fuel, runs>>

\* denyAction
Deny(d) ==
  \E reason \in DenyReasons :
    /\ deciders[d].phase = "idle"
    /\ pendingAction # None
    /\ lastNode # None
    /\ messages' = messagesStateReducer(messages, << HumanMessage(denyMessage(reason)) >>, nextId)
    /\ nextId' = nextId + 1
    /\ pendingAction' = None
    /\ awaitingApproval' = FALSE
    /\ nextNodes' = updateStateNext(Val(lastNode), next, FALSE, taskComplete, workerIterationCount)
    /\ deciders' = [deciders EXCEPT ![d] =
                      [phase |-> "done", kind |-> "deny",
                       writes |-> << HumanMessage(denyMessage(reason)) >>, committed |-> TRUE,
                       thrown |-> None]]
    /\ UNCHANGED <<orch, saver, currentWorker, next, finalResponse, error, iterationCount,
                   workerIterationCount, taskComplete, taskSummary, lastNode, running,
                   steps, events, lastEvent, toolLog, fuel, runs>>

InitConcurrent ==
  /\ InitThread
  /\ saver = FreshSaver
  /\ fuel = [streams |-> MaxConcStreams, nodes |-> MaxConcNodeSteps,
             calls |-> MaxConcToolCalls, faults |-> 0, busy |-> FALSE, shell |-> FALSE, wide |-> FALSE]

NextConcurrent ==
  \/ \E r \in 1..MaxRuns : RunStart(r)
  \/ \E r \in 1..MaxRuns : ResumeStart(r)
  \/ \E r \in 1..MaxRuns : RunSupervisor(r)
  \/ \E r \in 1..MaxRuns : RunWorker(r)
  \/ \E r \in 1..MaxRuns : RunFinish(r)
  \/ \E d \in 1..MaxDeciders : ApproveBegin(d)
  \/ \E d \in 1..MaxDeciders : ApproveEnd(d)
  \/ \E d \in 1..MaxDeciders : Deny(d)

SpecConcurrent == InitConcurrent /\ [][NextConcurrent]_vars

----------------------------------------------------------------------------
(* approveAction / denyAction called any number of times on one thread: the *)
(* handlers suspend at getState, at the tool call and at updateState, and   *)
(* nothing serializes them.                                                 *)

\* variant: denyAction does not test the state it has read
denyGuard_Always(pending) == TRUE

\* denyAction: the test of the state it has read
denyGuard(pending) == pending # None

\* approveAction: the test of the state it has read
approveGuard(pending, worker) == pending # None /\ worker # None

\* approveAction on a state without pending action or current worker: throws
ApproveRejected(d) ==
  /\ ~running
  /\ deciders[d].phase = "idle"
  /\ ~approveGuard(pendingAction, currentWorker)
  /\ deciders' = [deciders EXCEPT ![d] =
                    [phase |-> "failed", kind |-> "approve", writes |-> <<>>,
                     committed |-> FALSE, thrown |-> Some("No pending action to approve")]]
  /\ UNCHANGED <<orch, saver, chans, nextNodes, lastNode, running, steps, events, lastEvent,
                 toolLog, nextId, fuel, runs>>

\* approveAction: getState, then the tool call
ApproveStarted(d) ==
  /\ ~running
  /\ approveGuard(pendingAction, currentWorker)
  /\ ApproveBegin(d)

\* denyAction: getState
DenyBegin(d) ==
  \E reason \in DenyReasons :
    /\ ~running
    /\ deciders[d].phase = "idle"
    /\ denyGuard(pendingAction)
    /\ deciders' = [deciders EXCEPT ![d] =
                      [phase |-> "deciding", kind |-> "deny",
                       writes |-> << HumanMessage(denyMessage(reason)) >>,
                       committed |-> FALSE, thrown |-> None]]
    /\ UNCHANGED <<orch, saver, chans, nextNodes, lastNode, running, steps, events, lastEvent,
                   toolLog, nextId, fuel, runs>>

\* denyAction on a state without pending action: throws
DenyRejected(d) ==
  /\ ~running
  /\ deciders[d].phase = "idle"
  /\ ~denyGuard(pendingAction)
  /\ deciders' = [deciders EXCEPT ![d] =
                    [phase |-> "failed", kind |-> "deny", writes |-> <<>>,
                     committed |-> FALSE, thrown |-> Some("No pending action to deny")]]
  /\ UNCHANGED <<orch, saver, chans, nextNodes, lastNode, running, steps, events, lastEvent,
                 toolLog, nextId, fuel, runs>>

\* denyAction: updateState
DenyEnd(d) ==
  /\ deciders[d].phase = "deciding"
  /\ lastNode # None
  /\ messages' = messagesStateReducer(messages, deciders[d].writes, nextId)
  /\ nextId' = nextId + Len(deciders[d].writes)
  /\ pendingAction' = None
  /\ awaitingApproval' = FALSE
  /\ nextNodes' = updateStateNext(Val(lastNode), next, FALSE, taskComplete, workerIterationCount)
  /\ deciders' = [deciders EXCEPT ![d] = [@ EXCEPT !.phase = "done", !.committed = TRUE]]
  /\ UNCHANGED <<orch, saver, currentWorker, next, finalResponse, error, iterationCount,
                 workerIterationCount, taskComplete, taskSummary, lastNode, running,
                 steps, events, lastEvent, toolLog, fuel, runs>>

\* One turn that can pause for approval, then the handlers.
\* the approve / deny calls: each of MaxHandlers calls starts at any time
\* after the stream call has ended
Handlers == 1..MaxHandlers

InitDecide ==
  /\ InitChannels
  /\ deciders = [d \in Handlers |-> IdleDecider]
  /\ saver = FreshSaver
  /\ fuel = [streams |-> 1, nodes |-> MaxDecideNodeSteps, calls |-> 1, faults |-> 0,
             busy |-> FALSE, shell |-> FALSE, wide |-> FALSE]

NextDecide ==
  \/ StreamStart
  \/ SupervisorNode
  \/ WorkerNode
  \/ StreamFinish
  \/ \E d \in Handlers : ApproveStarted(d)
  \/ \E d \in Handlers : ApproveRejected(d)
  \/ \E d \in Handlers : ApproveEnd(d)
  \/ \E d \in Handlers : DenyBegin(d)
  \/ \E d \in Handlers : DenyRejected(d)
  \/ \E d \in Handlers : DenyEnd(d)

SpecDecide == InitDecide /\ [][NextDecide]_vars

----------------------------------------------------------------------------
(* AgentServiceGraph: ask, resume, processStream, handleError.  The graph   *)
(* stream is any sequence of graph events, ended normally or by a throw.   *)

formatWorkerName(name) ==
  CASE name = "filesystem_worker" -> "FileSystem Agent"
    [] name = "system_worker" -> "System Agent"
    [] name = "researcher_worker" -> "Researcher Agent"
    [] name = "code_worker" -> "Code Agent"
    [] name = "supervisor" -> "Supervisor"
    [] name = "__end__" -> "Complete"
    [] OTHER -> name

\* mapGraphEvent: the agent events (none or one) for a graph event
mapGraphEvent(event) ==
  CASE event.type = "worker_started" ->
         << [type |-> "status",
             message |-> "Routing to " \o formatWorkerName(event.data) \o "..."] >>
    [] event.type = "routing" ->
         << [type |-> "status", message |-> "Next: " \o formatWorkerName(event.data)] >>
    [] event.type = "tool_call" ->
         << [type |-> "tool",
             message |-> "Using tools: "
                           \o Join([i \in 1..Len(event.data) |-> event.data[i].name], ", ")] >>
    [] event.type = "tool_result" -> << [type |-> "tool_result", message |-> event.data] >>
    [] event.type = "approval_required" ->
         << [type |-> "approval_required", message |-> event.data.description] >>
    [] event.type = "complete" -> << [type |-> "response", message |-> event.data] >>
    [] event.type = "error" -> << [type |-> "error", message |-> event.data] >>
    [] OTHER -> <<>>

\* The graph events a stream can yield.
GraphEvents ==
  { [type |-> "worker_started", data |-> "code_worker"],
    [type |-> "routing", data |-> "code_worker"],
    [type |-> "tool_call", data |-> << [name |-> "read_file", args |-> <<>>] >>],
    [type |-> "tool_result", data |-> "output of read_file"],
    [type |-> "approval_required",
     data |-> [id |-> 2, workerName |-> "code_worker", toolName |-> "write_file",
               toolArgs |-> <<>>, sensitivity |-> "sensitive",
               description |-> "Write to file"]],
    [type |-> "complete", data |-> "All done."],
    [type |-> "complete", data |-> ""],
    [type |-> "error", data |-> "Recursion limit reached"],
    [type |-> "token", data |-> "x"] }

\* variant: the error is reported without the closing done event
handleError_NoDone(out, message) == Append(out, [type |-> "error", message |-> message])

\* handleError
handleError(out, message) ==
  out \o << [type |-> "error", message |-> message], [type |-> "done", message |-> ""] >>

\* ask: the user message is saved, then the stream is processed
ask ==
  \E stored \in BOOLEAN :
    /\ orch.pc = "idle"
    /\ orch.calls > 0
    /\ orch' = IF stored
               THEN [orch EXCEPT !.pc = "streaming",
                                 !.saved = << [role |-> "user", content |-> "hello"] >>,
                                 !.out = << [type |-> "status", message |-> "Processing..."] >>,
                                 !.finalResponse = "",
                                 !.left = MaxGraphEvents,
                                 !.calls = @ - 1]
               ELSE [orch EXCEPT !.pc = "returned",
                                 !.saved = <<>>,
                                 !.out = handleError(<<>>, "storage failed"),
                                 !.calls = @ - 1]
    /\ UNCHANGED graphVars

\* resume
resume ==
  /\ orch.pc = "idle"
  /\ orch.calls > 0
  /\ orch' = [orch EXCEPT !.pc = "streaming", !.saved = <<>>, !.out = <<>>,
                          !.finalResponse = "", !.left = MaxGraphEvents, !.calls = @ - 1]
  /\ UNCHANGED graphVars

\* processStream: one graph event
processStreamEvent ==
  \E event \in GraphEvents :
    /\ orch.pc = "streaming"
    /\ orch.left > 0
    /\ orch' = [orch EXCEPT !.out = @ \o mapGraphEvent(event),
                            !.finalResponse = IF event.type = "complete" THEN event.data ELSE @,
                            !.left = @ - 1]
    /\ UNCHANGED graphVars

\* processStream: the graph stream throws
processStreamThrows ==
  /\ orch.pc = "streaming"
  /\ orch' = [orch EXCEPT !.pc = "returned", !.out = handleError(@, "stream failed")]
  /\ UNCHANGED graphVars

\* processStream: the graph stream has ended
processStreamEnd ==
  \E stored \in BOOLEAN :
    /\ orch.pc = "streaming"
    /\ orch' =
         IF orch.finalResponse = ""
         THEN [orch EXCEPT !.pc = "returned",
                           !.out = Append(@, [type |-> "done", message |-> ""])]
         ELSE IF stored
         THEN [orch EXCEPT !.pc = "returned",
                           !.saved = Append(@, [role |-> "assistant",
                                                content |-> orch.finalResponse]),
                           !.out = Append(@, [type |-> "done", message |-> ""])]
         ELSE [orch EXCEPT !.pc = "returned", !.out = handleError(@, "storage failed")]
    /\ UNCHANGED graphVars

\* the caller has the answer; the orchestrator is ready for the next call
callReturned ==
  /\ orch.pc = "returned"
  /\ orch' = [orch EXCEPT !.pc = "idle", !.out = <<>>, !.saved = <<>>, !.finalResponse = ""]
  /\ UNCHANGED graphVars

NextOrchestrator ==
  \/ ask
  \/ resume
  \/ processStreamEvent
  \/ processStreamThrows
  \/ processStreamEnd
  \/ callReturned

SpecOrchestrator == Init /\ [][NextOrchestrator]_vars

----------------------------------------------------------------------------
(* SQLiteCheckpointer.  The database is two tables, each a set of rows; a   *)
(* table that does not exist is None, and a column that a table lacks has   *)
(* the value NoColumn in its rows.  created_at is the clock reading at the  *)
(* insert; rowid numbers the inserts.                                       *)

NoColumn == "<no column>"
ThreadIds == {"t1", "t2"}
Namespaces == {"", "sub"}
CheckpointIds == {"c1", "c2"}
TaskIds == {"task1", "task2"}

\* serde.dumpsTyped / serde.loadsTyped: a value is stored as typed bytes
dumpsTyped(value) == <<"json", [bytes |-> value]>>
loadsTyped(type, data) == IF type = "json" THEN data.bytes ELSE [unreadable |-> type]

\* the type columns of the tables
CheckpointTypeColumns == {"checkpoint_type", "metadata_type"}
WriteTypeColumns == {"type"}

\* variant: the tables are created anew when a type column is missing
setup_Recreate(s) ==
  IF s.isSetup THEN s
  ELSE [s EXCEPT
          !.isSetup = TRUE,
          !.checkpointColumns = Some(CheckpointTypeColumns),
          !.checkpoints = IF s.checkpointColumns = Some(CheckpointTypeColumns) THEN @ ELSE {},
          !.writeColumns = Some(WriteTypeColumns),
          !.writes = IF s.writeColumns = Some(WriteTypeColumns) THEN @ ELSE {}]

\* setup: create the missing tables, add the missing type columns with
\* default 'json'
setup(s) ==
  IF s.isSetup THEN s
  ELSE [s EXCEPT
          !.isSetup = TRUE,
          !.checkpointColumns = Some(CheckpointTypeColumns),
          !.checkpoints =
             {[r EXCEPT !.checkpoint_type = IF @ = NoColumn THEN "json" ELSE @,
                        !.metadata_type = IF @ = NoColumn THEN "json" ELSE @] : r \in @},
          !.writeColumns = Some(WriteTypeColumns),
          !.writes = {[w EXCEPT !.type = IF @ = NoColumn THEN "json" ELSE @] : w \in @}]

\* getConfigValues
getConfigValues(config) ==
  [threadId |-> config.thread_id, checkpointNs |-> OrElse(config.checkpoint_ns, ""),
   checkpointId |-> IF OrElse(config.checkpoint_id, "") # "" THEN config.checkpoint_id
                    ELSE None]

ConfigOf(threadId, checkpointNs, checkpointId) ==
  [thread_id |-> threadId, checkpoint_ns |-> Some(checkpointNs),
   checkpoint_id |-> Some(checkpointId)]

\* The orders in which a SELECT ... ORDER BY key may return the rows: every
\* order that is sorted by the key; rows with equal keys come in any order.
Orders(rows, before) ==
  {o \in [1..Cardinality(rows) -> rows] :
     /\ \A i, j \in 1..Cardinality(rows) : i # j => o[i] # o[j]
     /\ \A i, j \in 1..Cardinality(rows) : i < j => <<o[j], o[i]>> \notin before}

\* SELECT ... FROM graph_writes WHERE ... ORDER BY idx, mapped to pending writes
pendingWritesOf(s, threadId, checkpointNs, checkpointId) ==
  LET rows == {w \in s.writes : /\ w.thread_id = threadId
                                /\ w.checkpoint_ns = checkpointNs
                                /\ w.checkpoint_id = checkpointId}
      ByIdx == {p \in rows \X rows : p[1].idx < p[2].idx}
  IN {[i \in 1..Len(o) |->
         <<o[i].task_id, o[i].channel,
           IF o[i].value = None THEN None
           ELSE Some(loadsTyped(o[i].type, Val(o[i].value)))>>] : o \in Orders(rows, ByIdx)}

parentConfigOf(row) ==
  IF OrElse(row.parent_checkpoint_id, "") # ""
  THEN Some(ConfigOf(row.thread_id, row.checkpoint_ns, Val(row.parent_checkpoint_id)))
  ELSE None

\* getTuple on a checkpointer that has run setup: the set of tuples it may
\* return (None for no tuple).  Without a checkpoint id the query is
\* ORDER BY created_at DESC LIMIT 1.
getTuple(s, config) ==
  LET c == getConfigValues(config)
      rows == {r \in s.checkpoints : r.thread_id = c.threadId /\ r.checkpoint_ns = c.checkpointNs}
      found == IF c.checkpointId # None
               THEN {r \in rows : r.checkpoint_id = Val(c.checkpointId)}
               ELSE {r \in rows : \A q \in rows : q.created_at <= r.created_at}
  IN IF found = {} THEN {None}
     ELSE UNION {
            {Some([config |-> ConfigOf(c.threadId, c.checkpointNs, row.checkpoint_id),
                   checkpoint |-> loadsTyped(row.checkpoint_type, row.checkpoint),
                   metadata |-> loadsTyped(row.metadata_type, row.metadata),
                   parentConfig |-> parentConfigOf(row),
                   pendingWrites |-> pw]) :
               pw \in pendingWritesOf(s, c.threadId, c.checkpointNs, row.checkpoint_id)} :
            row \in found}

Take(seq, n) == IF Len(seq) > n THEN SubSeq(seq, 1, n) ELSE seq

RECURSIVE SelectSeq2(_, _)
SelectSeq2(seq, filter) ==
  IF seq = <<>> THEN <<>>
  ELSE IF \A kv \in filter : seq[1].metadata[kv[1]] = kv[2]
  THEN <<seq[1]>> \o SelectSeq2(Tail(seq), filter)
  ELSE SelectSeq2(Tail(seq), filter)

\* list on a checkpointer that has run setup: the set of sequences it may
\* yield.  options = [limit, before, filter]; limit and before are None or a
\* value, filter is a set of <<key, value>> pairs.
list(s, config, options) ==
  LET c == getConfigValues(config)
      beforeRows == IF options.before = None THEN {}
                    ELSE {r \in s.checkpoints : /\ r.thread_id = c.threadId
                                                /\ r.checkpoint_ns = c.checkpointNs
                                                /\ r.checkpoint_id = Val(options.before)}
      rows == {r \in s.checkpoints :
                 /\ r.thread_id = c.threadId
                 /\ r.checkpoint_ns = c.checkpointNs
                 /\ \A b \in beforeRows : r.created_at < b.created_at}
      Newer == {p \in rows \X rows : p[1].created_at > p[2].created_at}
      limited(o) == IF OrElse(options.limit, 0) # 0 THEN Take(o, Val(options.limit)) ELSE o
      tuple(row) == [config |-> ConfigOf(c.threadId, c.checkpointNs, row.checkpoint_id),
                     checkpoint |-> loadsTyped(row.checkpoint_type, row.checkpoint),
                     metadata |-> loadsTyped(row.metadata_type, row.metadata),
                     parentConfig |-> parentConfigOf(row)]
  IN {SelectSeq2([i \in 1..Len(limited(o)) |-> tuple(limited(o)[i])], options.filter) :
        o \in Orders(rows, Newer)}

\* variant: a plain INSERT that leaves the row it should replace
insertCheckpoint_NoReplace(s, row) ==
  [s EXCEPT
     !.checkpoints = @ \cup {[row EXCEPT !.created_at = s.now, !.rowid = s.rowid + 1]},
     !.rowid = @ + 1]

\* INSERT OR REPLACE INTO graph_checkpoints
insertCheckpoint(s, row) ==
  [s EXCEPT
     !.checkpoints = {r \in @ : ~(/\ r.thread_id = row.thread_id
                                  /\ r.checkpoint_ns = row.checkpoint_ns
                                  /\ r.checkpoint_id = row.checkpoint_id)}
                       \cup {[row EXCEPT !.created_at = s.now, !.rowid = s.rowid + 1]},
     !.rowid = @ + 1]

\* INSERT OR REPLACE INTO graph_writes
insertWrite(s, row) ==
  [s EXCEPT
     !.writes = {w \in @ : ~(/\ w.thread_id = row.thread_id
                             /\ w.checkpoint_ns = row.checkpoint_ns
                             /\ w.checkpoint_id = row.checkpoint_id
                             /\ w.task_id = row.task_id
                             /\ w.idx = row.idx)} \cup {row}]

\* the inserts of putWrites from position idx on; insert number failAt throws
RECURSIVE insertWrites(_, _, _, _, _, _)
insertWrites(s, c, taskId, serializedWrites, idx, failAt) ==
  IF idx >= Len(serializedWrites) \/ idx = failAt THEN s
  ELSE insertWrites(
         insertWrite(s, [thread_id |-> c.threadId, checkpoint_ns |-> c.checkpointNs,
                         checkpoint_id |-> Val(c.checkpointId), task_id |-> taskId,
                         idx |-> idx, channel |-> serializedWrites[idx + 1].channel,
                         value |-> serializedWrites[idx + 1].data,
                         type |-> serializedWrites[idx + 1].type]),
         c, taskId, serializedWrites, idx + 1, failAt)

serializeWrites(writes) ==
  [i \in 1..Len(writes) |->
     [channel |-> writes[i][1],
      data |-> IF writes[i][2] # None THEN Some(dumpsTyped(Val(writes[i][2]))[2]) ELSE None,
      type |-> IF writes[i][2] # None THEN dumpsTyped(Val(writes[i][2]))[1] ELSE "json"]]

\* variant: the inserts are not in a transaction
writesTransaction_NoRollback(s, c, taskId, serializedWrites, failAt) ==
  insertWrites(s, c, taskId, serializedWrites, 0, failAt)

\* db.transaction of putWrites: all the inserts, or none when one throws
writesTransaction(s, c, taskId, serializedWrites, failAt) ==
  IF failAt < Len(serializedWrites) THEN s
  ELSE insertWrites(s, c, taskId, serializedWrites, 0, failAt)

\* variant: only the checkpoints of the thread are deleted
deleteRows_CheckpointsOnly(s, threadId) ==
  [s EXCEPT !.checkpoints = {r \in @ : r.thread_id # threadId}]

\* db.transaction of deleteThread
deleteRows(s, threadId) ==
  [s EXCEPT !.writes = {w \in @ : w.thread_id # threadId},
            !.checkpoints = {r \in @ : r.thread_id # threadId}]

\* The inputs of the operations
SavedCheckpoints == {[id |-> id, v |-> v] : id \in CheckpointIds, v \in {"v1", "v2"}}

PutInputs ==
  UNION {{[config |-> [thread_id |-> t[1], checkpoint_ns |-> Some(t[2]), checkpoint_id |-> None],
           checkpoint |-> [id |-> id, v |-> "v1"], metadata |-> [source |-> "input"]],
          [config |-> [thread_id |-> t[1], checkpoint_ns |-> Some(t[2]), checkpoint_id |-> Some("c1")],
           checkpoint |-> [id |-> id, v |-> "v2"], metadata |-> [source |-> "loop"]]} :
           t \in {<<"t1", "">>, <<"t1", "sub">>, <<"t2", "">>}, id \in CheckpointIds}

WriteConfigs ==
  {[thread_id |-> "t1", checkpoint_ns |-> None, checkpoint_id |-> Some("c1")],
   [thread_id |-> "t1", checkpoint_ns |-> Some("sub"), checkpoint_id |-> Some("c1")],
   [thread_id |-> "t2", checkpoint_ns |-> None, checkpoint_id |-> Some("c1")],
   [thread_id |-> "t1", checkpoint_ns |-> None, checkpoint_id |-> None]}

WriteLists ==
  {<< <<"messages", Some("m1")>> >>,
   << <<"next", Some("supervisor")>>, <<"pendingAction", None>> >>}

\* a database written by an earlier version: tables without type columns,
\* rows created before the clock's first reading
OldCheckpointRow ==
  [thread_id |-> "t1", checkpoint_ns |-> "", checkpoint_id |-> "c1",
   parent_checkpoint_id |-> None, checkpoint |-> [bytes |-> [id |-> "c1", v |-> "v1"]],
   metadata |-> [bytes |-> [source |-> "input"]],
   checkpoint_type |-> NoColumn, metadata_type |-> NoColumn, created_at |-> 0, rowid |-> 1]

OldWriteRow ==
  [thread_id |-> "t1", checkpoint_ns |-> "", checkpoint_id |-> "c1", task_id |-> "task1",
   idx |-> 0, channel |-> "messages", value |-> Some([bytes |-> "m1"]), type |-> NoColumn]

InitialSavers ==
  {[FreshSaver EXCEPT !.ops = MaxStoreOps],
   [FreshSaver EXCEPT !.ops = MaxStoreOps,
                      !.checkpointColumns = Some({}), !.writeColumns = Some({}),
                      !.checkpoints = {OldCheckpointRow}, !.writes = {OldWriteRow},
                      !.rowid = 1],
   [FreshSaver EXCEPT !.ops = MaxStoreOps,
                      !.checkpointColumns = Some({"checkpoint_type"}),
                      !.checkpoints = {[OldCheckpointRow EXCEPT !.checkpoint_type = "json"]},
                      !.rowid = 1]}

\* SQLiteCheckpointer.put
put ==
  \E in \in PutInputs :
    /\ saver.ops > 0
    /\ LET s == setup(saver)
           c == getConfigValues(in.config)
           row == [thread_id |-> c.threadId, checkpoint_ns |-> c.checkpointNs,
                   checkpoint_id |-> in.checkpoint.id,
                   parent_checkpoint_id |-> IF OrElse(in.config.checkpoint_id, "") # ""
                                            THEN in.config.checkpoint_id ELSE None,
                   checkpoint |-> dumpsTyped(in.checkpoint)[2],
                   metadata |-> dumpsTyped(in.metadata)[2],
                   checkpoint_type |-> dumpsTyped(in.checkpoint)[1],
                   metadata_type |-> dumpsTyped(in.metadata)[1],
                   created_at |-> 0, rowid |-> 0]
       IN saver' = [insertCheckpoint(s, row) EXCEPT
                      !.ops = @ - 1,
                      !.op = [name |-> "put", input |-> in,
                              replaced |-> \E r \in s.checkpoints :
                                             /\ r.thread_id = row.thread_id
                                             /\ r.checkpoint_ns = row.checkpoint_ns
                                             /\ r.checkpoint_id = row.checkpoint_id,
                              result |-> ConfigOf(c.threadId, c.checkpointNs, in.checkpoint.id)]]
    /\ UNCHANGED agentVars

\* SQLiteCheckpointer.putWrites; failAt is the insert that throws
\* (Len(writes) and above: none does)
putWrites ==
  \E config \in WriteConfigs, writes \in WriteLists, taskId \in TaskIds, failAt \in {1, 2} :
    /\ saver.ops > 0
    /\ LET s == setup(saver)
           c == getConfigValues(config)
       IN saver' =
            IF c.checkpointId = None
            THEN [s EXCEPT !.ops = @ - 1,
                           !.op = [name |-> "putWrites", config |-> config, writes |-> writes,
                                   taskId |-> taskId, threw |-> TRUE]]
            ELSE [writesTransaction(s, c, taskId, serializeWrites(writes), failAt) EXCEPT
                    !.ops = @ - 1,
                    !.op = [name |-> "putWrites", config |-> config, writes |-> writes,
                            taskId |-> taskId, threw |-> failAt < Len(writes)]]
    /\ UNCHANGED agentVars

\* SQLiteCheckpointer.deleteThread
deleteThread ==
  \E threadId \in ThreadIds :
    /\ saver.ops > 0
    /\ saver' = [deleteRows(setup(saver), threadId) EXCEPT
                   !.ops = @ - 1, !.op = [name |-> "deleteThread", threadId |-> threadId]]
    /\ UNCHANGED agentVars

\* SQLiteCheckpointer.getTuple as an operation: it runs setup first
getTupleCall ==
  \E config \in {[thread_id |-> "t1", checkpoint_ns |-> None, checkpoint_id |-> None]} :
    /\ saver.ops > 0
    /\ \E result \in getTuple(setup(saver), config) :
         saver' = [setup(saver) EXCEPT
                     !.ops = @ - 1,
                     !.op = [name |-> "getTuple", config |-> config, result |-> result]]
    /\ UNCHANGED agentVars

\* the process restarts: a new SQLiteCheckpointer on the same database
restart ==
  /\ saver.isSetup
  /\ saver' = [saver EXCEPT !.isSetup = FALSE, !.op = [name |-> "restart"]]
  /\ UNCHANGED agentVars

\* time passes between two operations
Tick ==
  /\ saver.now < MaxClock
  /\ saver.op.name # "tick"
  /\ saver' = [saver EXCEPT !.now = @ + 1, !.op = [name |-> "tick"]]
  /\ UNCHANGED agentVars

InitStore ==
  /\ InitThread
  /\ fuel = [streams |-> 0, nodes |-> 0, calls |-> 0, faults |-> 0, busy |-> FALSE,
             shell |-> FALSE, wide |-> FALSE]
  /\ saver \in InitialSavers

NextStore ==
  \/ put
  \/ putWrites
  \/ deleteThread
  \/ getTupleCall
  \/ restart
  \/ Tick

SpecStore == InitStore /\ [][NextStore]_vars

----------------------------------------------------------------------------
(* Properties *)

IsSensitive(e) == getToolSensitivity(e.toolName, e.toolArgs) = "sensitive"

\* C1: a sensitive tool is never invoked by a worker step; every invocation
\* of a sensitive tool is made by approveAction, one at a time, for the call
\* that is the stored pendingAction at that moment (same id, tool, args).
C1_SensitiveOnlyByApproval ==
  [][\A i \in (Len(toolLog) + 1)..Len(toolLog') :
       IsSensitive(toolLog'[i]) =>
         /\ toolLog'[i].via = "approve"
         /\ Len(toolLog') = Len(toolLog) + 1
         /\ pendingAction # None
         /\ toolLog'[i].id = Val(pendingAction).id
         /\ toolLog'[i].toolName = Val(pendingAction).toolName
         /\ toolLog'[i].toolArgs = Val(pendingAction).toolArgs]_vars

C1_Witness ==
  \E i \in 1..Len(toolLog) : IsSensitive(toolLog[i]) /\ toolLog[i].via = "approve"

\* C2: awaitingApproval implies a stored pendingAction and a currentWorker.
C2_AwaitingHasPendingAndWorker ==
  awaitingApproval => (pendingAction # None /\ currentWorker # None)

C2_Witness == awaitingApproval /\ ~running /\ nextNodes = Some(HUMAN_APPROVAL)

ToolResultsFor(msgs, id) ==
  {j \in 1..Len(msgs) : msgs[j].type = "tool" /\ msgs[j].tool_call_id = id}

\* C3: every tool-call id of an assistant message has exactly one tool-result
\* message (a placeholder counts), placed before any later assistant message.
C3_ExactlyOneToolResult ==
  \A i \in 1..Len(messages) :
    \A k \in 1..Len(messages[i].tool_calls) :
      LET results == ToolResultsFor(messages, messages[i].tool_calls[k].id) IN
      /\ Cardinality(results) = 1
      /\ \A j \in results :
           /\ j > i
           /\ \A a \in (i + 1)..Len(messages) : messages[a].type = "ai" => j < a

IsPrefix(old, new) == Len(new) >= Len(old) /\ SubSeq(new, 1, Len(old)) = old

\* C4: messages are append-only, except that the tool-result written by
\* approveAction replaces the "[Awaiting user approval]" placeholder of the
\* same tool_call_id at its position instead of being appended.
C4_AppendOnlyWithReplace ==
  [][IF ApproveAction
     THEN /\ Len(messages') = Len(messages)
          /\ \E p \in 1..Len(messages) :
               /\ messages[p].type = "tool"
               /\ messages[p].content = "[Awaiting user approval]"
               /\ messages[p].tool_call_id = Val(pendingAction).id
               /\ messages'[p].type = "tool"
               /\ messages'[p].tool_call_id = Val(pendingAction).id
               /\ messages'[p].content # "[Awaiting user approval]"
               /\ \A q \in 1..Len(messages) : q # p => messages'[q] = messages[q]
     ELSE IsPrefix(messages, messages')]_vars

Paused == ~running /\ awaitingApproval /\ pendingAction # None

\* C5: a stream call on a paused thread, with no approve / deny in between,
\* changes nothing in the thread state and runs no node; it only re-emits
\* approval_required for the same pending action.
C5_ResumeIdempotent ==
  [][(Paused /\ running') =>
       /\ chans' = chans
       /\ nextNodes' = nextNodes]_vars

\* C6: approveAction leaves pendingAction = null and awaitingApproval = false,
\* invokes the owning worker's tool exactly once with the stored toolArgs, and
\* adds a tool-result whose tool_call_id is the PendingAction id.
C6_ApproveExecutesOnce ==
  [][ApproveAction =>
       /\ pendingAction' = None
       /\ awaitingApproval' = FALSE
       /\ Len(toolLog') = Len(toolLog) + 1
       /\ IsPrefix(toolLog, toolLog')
       /\ toolLog'[Len(toolLog')].toolName = Val(pendingAction).toolName
       /\ toolLog'[Len(toolLog')].toolArgs = Val(pendingAction).toolArgs
       /\ toolLog'[Len(toolLog')].worker = Val(pendingAction).workerName
       /\ \E j \in 1..Len(messages') :
            /\ messages'[j].type = "tool"
            /\ messages'[j].tool_call_id = Val(pendingAction).id
            /\ messages'[j].content \in
                 {ToolOutput(Val(pendingAction).toolName), "Error: " \o ToolErrorMessage}
            /\ \A q \in 1..Len(messages) : messages[q] # messages'[j]]_vars

C6_Witness ==
  /\ ~running
  /\ pendingAction = None
  /\ ~awaitingApproval
  /\ toolLog # <<>>
  /\ toolLog[Len(toolLog)].via = "approve"
  /\ messages[Len(messages)].type = "tool"
  /\ messages[Len(messages)].tool_call_id = toolLog[Len(toolLog)].id

DenialTexts == {"Action denied by user", "Action denied by user: too risky"}

Denied ==
  /\ ~running
  /\ messages # <<>>
  /\ messages[Len(messages)].type = "human"
  /\ messages[Len(messages)].content \in DenialTexts

\* C7: denyAction invokes no tool, appends exactly one user message
\* "Action denied by user[: <reason>]", clears pendingAction and
\* awaitingApproval; the stream call that follows starts at the supervisor.
C7_DenyThenSupervisor ==
  [][/\ DenyAction =>
          /\ toolLog' = toolLog
          /\ Len(messages') = Len(messages) + 1
          /\ IsPrefix(messages, messages')
          /\ messages'[Len(messages')].type = "human"
          /\ messages'[Len(messages')].content \in DenialTexts
          /\ pendingAction' = None
          /\ awaitingApproval' = FALSE
     /\ (Denied /\ running') =>
          /\ nextNodes' = Some(SUPERVISOR)
          /\ toolLog' = toolLog]_vars

C7_Witness ==
  /\ running
  /\ lastNode = Some(SUPERVISOR)
  /\ \E i \in 1..Len(messages) :
       messages[i].type = "human" /\ messages[i].content = "Action denied by user: too risky"
  /\ toolLog = <<>>

QueuedText == "[Queued - previous action awaiting approval]"

SensitiveCalls(calls) ==
  {k \in 1..Len(calls) : getToolSensitivity(calls[k].name, calls[k].args) = "sensitive"}

RegisteredSensitiveCalls(w, calls) ==
  {k \in SensitiveCalls(calls) : calls[k].name \in Tools(w)}

FirstOf(S) == CHOOSE k \in S : \A j \in S : k <= j

\* After a worker step whose assistant message holds the sensitive calls S:
\* the pending action is the first of S, every later one has exactly one
\* "[Queued ...]" tool-result with its own id.
FirstPendingRestQueued(calls, S) ==
  S # {} =>
    /\ pendingAction' # None
    /\ Val(pendingAction').id = calls[FirstOf(S)].id
    /\ Val(pendingAction').toolName = calls[FirstOf(S)].name
    /\ Val(pendingAction').toolArgs = calls[FirstOf(S)].args
    /\ \A k \in S \ {FirstOf(S)} :
         LET results == ToolResultsFor(messages', calls[k].id) IN
         /\ Cardinality(results) = 1
         /\ \A j \in results : messages'[j].content = QueuedText

\* Approving never runs a call that was answered with "[Queued ...]".
ApproveSkipsQueued ==
  ApproveAction =>
    \A i \in (Len(toolLog) + 1)..Len(toolLog') :
      /\ toolLog'[i].id = Val(pendingAction).id
      /\ \A j \in 1..Len(messages) :
           messages[j].content = QueuedText => messages[j].tool_call_id # toolLog'[i].id

\* C8 (as stated): of several sensitive tool calls in one assistant message the
\* first in call order becomes pendingAction, every later one gets exactly one
\* "[Queued ...]" placeholder with its own id, and approving the pending action
\* executes none of the queued calls.
C8_FirstSensitivePending ==
  [][/\ WorkerNode =>
          FirstPendingRestQueued(messages'[Len(messages) + 1].tool_calls,
                                 SensitiveCalls(messages'[Len(messages) + 1].tool_calls))
     /\ ApproveSkipsQueued]_vars

\* C8 (amended): the same, for the sensitive calls to tools that the worker
\* has in its registry; a call to a tool the worker does not have is answered
\* with "Error: Tool ... not found" and is neither pending nor queued.
C8_FirstRegisteredSensitivePending ==
  [][/\ WorkerNode =>
          /\ FirstPendingRestQueued(
               messages'[Len(messages) + 1].tool_calls,
               RegisteredSensitiveCalls(Val(lastNode'), messages'[Len(messages) + 1].tool_calls))
          /\ \A k \in SensitiveCalls(messages'[Len(messages) + 1].tool_calls)
                        \ RegisteredSensitiveCalls(Val(lastNode'),
                                                   messages'[Len(messages) + 1].tool_calls) :
               LET results == ToolResultsFor(messages',
                                             messages'[Len(messages) + 1].tool_calls[k].id) IN
               /\ Cardinality(results) = 1
               /\ \A j \in results :
                    messages'[j].content =
                      "Error: Tool " \o messages'[Len(messages) + 1].tool_calls[k].name \o " not found"
     /\ ApproveSkipsQueued]_vars

C8_Witness ==
  /\ pendingAction # None
  /\ \E j \in 1..Len(messages) :
       /\ messages[j].content = QueuedText
       /\ messages[j].tool_call_id > Val(pendingAction).id

\* C9: iterationCount never exceeds MAX_ITERATIONS, also in the state written
\* by the supervisor pass that detects the ceiling.
C9_IterationCeiling == iterationCount <= MAX_ITERATIONS

\* C10: a worker whose steps all return taskComplete = false and
\* awaitingApproval = false runs MAX_WORKER_ITERATIONS times and then control
\* returns to the supervisor: the supervisor writes workerIterationCount = 0,
\* each worker step adds one, the count never exceeds the limit, and the step
\* that reaches the limit (and no earlier one) goes back to the supervisor.
C10_WorkerLoopBounded ==
  [][/\ workerIterationCount' <= MAX_WORKER_ITERATIONS
     /\ SupervisorNode => workerIterationCount' = 0
     /\ WorkerNode =>
          /\ workerIterationCount' = workerIterationCount + 1
          /\ (~taskComplete' /\ ~awaitingApproval') =>
               nextNodes' = IF workerIterationCount' = MAX_WORKER_ITERATIONS
                            THEN Some(SUPERVISOR)
                            ELSE lastNode'
     /\ (running' /\ nextNodes' # None /\ Val(nextNodes') \in WORKER_NAMES) =>
          workerIterationCount' < MAX_WORKER_ITERATIONS]_vars

C10_Witness ==
  /\ running
  /\ workerIterationCount = MAX_WORKER_ITERATIONS
  /\ ~taskComplete
  /\ ~awaitingApproval
  /\ lastNode # None
  /\ Val(lastNode) \in WORKER_NAMES
  /\ nextNodes = Some(SUPERVISOR)

\* C11: a turn in which the supervisor never chooses FINISH and the workers
\* self-loop still ends with a complete event carrying the "maximum number of
\* steps" response: no stream call ends with an error event, the recursion
\* limit is never what stops the run.
C11_CeilingBeforeRecursionLimit ==
  (~running /\ lastEvent # None) => Val(lastEvent).type # "error"

\* The three ways a stream call may end.
EndedProperly ==
  /\ lastEvent # None
  /\ \/ /\ Val(lastEvent).type = "complete"
        /\ nextNodes = None
        /\ finalResponse # None
     \/ /\ Val(lastEvent).type = "approval_required"
        /\ awaitingApproval
        /\ pendingAction # None
     \/ Val(lastEvent).type = "error"

\* C12: every stream call terminates (every model call and tool call
\* returning), and its last event is complete (graph at END, finalResponse
\* set), approval_required (awaitingApproval, pendingAction set) or error.
C12_StreamTerminates == [](running => <>(~running /\ EndedProperly))

C12_Witness ==
  /\ ~running
  /\ steps = RecursionLimit
  /\ EndedProperly

ApprovalRequired == lastEvent # None /\ Val(lastEvent).type = "approval_required"

\* C13: at the end of a stream call, awaitingApproval holds iff the last event
\* of that call is approval_required and the next node of the thread is
\* human_approval.
C13_AwaitingIffApprovalRequired ==
  [][StreamFinish =>
       (awaitingApproval' <=> (ApprovalRequired' /\ nextNodes' = Some(HUMAN_APPROVAL)))]_vars

C13_Witness ==
  /\ ~running
  /\ awaitingApproval
  /\ ApprovalRequired
  /\ nextNodes = Some(HUMAN_APPROVAL)

CompleteEvents(evs) == {i \in 1..Len(evs) : evs[i].type = "complete"}

\* C14: a complete event carries a non-empty response equal to the thread's
\* finalResponse, and is emitted only at the end of a stream call whose run
\* reached END: the supervisor of that run wrote the finalResponse.
C14_CompleteCarriesFinalResponse ==
  [][/\ ~StreamFinish => CompleteEvents(events') = {} \/ UNCHANGED events
     /\ StreamFinish =>
          \A i \in CompleteEvents(events') :
            /\ events'[i].data # ""
            /\ finalResponse' = Some(events'[i].data)
            /\ nextNodes' = None
            /\ next' = END
            /\ lastNode' = Some(SUPERVISOR)
            /\ steps' > 0]_vars

C14_Witness ==
  /\ ~running
  /\ fuel.streams < MaxStreams - 1
  /\ lastEvent = Some([type |-> "complete", data |-> "All done."])

\* A stream call that carries a user's message (ask): it appends a human
\* message with a non-empty text.  A resume call passes the empty text.
AsksNewTurn ==
  /\ StreamStart
  /\ Len(messages') = Len(messages) + 1
  /\ messages'[Len(messages')].content # ""

\* C15: within one user turn, from the user's message until END, including
\* an approval pause and its resume, iterationCount never decreases; it is
\* set to 0 when a new user turn starts.
C15_IterationCountMonotone ==
  [][/\ ~StreamStart => iterationCount' >= iterationCount
     /\ (StreamStart /\ nextNodes # None /\ ~AsksNewTurn) => iterationCount' >= iterationCount
     /\ (StreamStart /\ nextNodes = None) => iterationCount' = 0]_vars

ActiveRuns == {r \in 1..MaxRuns : runs[r] # None}

\* C16: the graph runs of one thread never overlap, also when ask, resume,
\* approve and deny are called concurrently: at most one stream call of the
\* thread is in progress at any time.
C16_RunsSequential == Cardinality(ActiveRuns) <= 1

\* C17: the state written by approveAction / denyAction is committed before
\* the corresponding resume stream reads the thread state: a handler's
\* resume starts only when the handler's updateState has been applied.
C17_DecisionCommittedBeforeResume ==
  [][\A d \in 1..MaxDeciders :
       (deciders[d].phase # "idle" /\ deciders'[d].phase = "idle") =>
         /\ deciders[d].committed
         /\ \E r \in 1..MaxRuns : runs[r] = None /\ runs'[r] # None]_vars

C17_Witness ==
  /\ \A d \in 1..MaxDeciders : deciders[d].phase = "idle"
  /\ \E i \in 1..Len(toolLog) : toolLog[i].via = "approve"
  /\ ActiveRuns # {}

\* The last message of the thread reports a failed model invocation of a worker.
WorkerFailed ==
  /\ messages # <<>>
  /\ \E w \in WORKER_NAMES :
       messages[Len(messages)].content = "Worker " \o w \o " encountered an error: model failed"

\* C18: when a worker's model invocation throws, the turn ends at END: no
\* worker runs again and the next supervisor pass goes to END.
C18_WorkerFailureEndsTurn ==
  [][(running /\ WorkerFailed) =>
       /\ ~WorkerNode
       /\ SupervisorNode => nextNodes' = None]_vars

OutOfType(t) == {i \in 1..Len(orch.out) : orch.out[i].type = t}

\* C19: an ask or resume call emits exactly one done event, as its last
\* event; every error event is followed by a done event; the assistant
\* message is saved only when a complete event with a non-empty response was
\* received, and it is that response.
C19_DoneClosesEveryCall ==
  /\ orch.pc = "streaming" => OutOfType("done") = {}
  /\ orch.pc = "returned" =>
       /\ OutOfType("done") = {Len(orch.out)}
       /\ \A i \in 1..Len(orch.saved) :
            orch.saved[i].role = "assistant" =>
              /\ orch.saved[i].content # ""
              /\ \E j \in OutOfType("response") :
                   orch.out[j].message = orch.saved[i].content

C19_Witness ==
  /\ orch.pc = "returned"
  /\ OutOfType("error") # {}
  /\ OutOfType("response") # {}

ShellRejected(entry) ==
  /\ entry.toolName = "execute_shell_command"
  /\ \/ ~IsWhitelisted(ArgValue(entry.toolArgs, "command"))
     \/ HasBlockedPattern(ArgValue(entry.toolArgs, "command"))

\* C20: a shell command that is not whitelisted or that contains a blocked
\* pattern is never executed, inline or through approveAction: the
\* invocation spawns no process, its tool message reads "Error: ...", and a
\* node stays scheduled.
C20_RejectedShellNeverSpawned ==
  [][\A i \in (Len(toolLog) + 1)..Len(toolLog') :
       ShellRejected(toolLog'[i]) =>
         /\ ~toolLog'[i].spawned
         /\ \E j \in 1..Len(messages') :
              /\ messages'[j].type = "tool"
              /\ messages'[j].tool_call_id = toolLog'[i].id
              /\ SubSeq(messages'[j].content, 1, 7) = "Error: "
         /\ nextNodes' # None]_vars

C20_Witness ==
  /\ \E i \in 1..Len(toolLog) : ShellRejected(toolLog[i]) /\ toolLog[i].via = "process"
  /\ \E i \in 1..Len(toolLog) : ShellRejected(toolLog[i]) /\ toolLog[i].via = "approve"
  /\ \E i \in 1..Len(toolLog) : toolLog[i].spawned

ApprovedEntries(log) == {i \in 1..Len(log) : log[i].via = "approve"}

\* C21: the tool message that executePendingAction produces for an approved
\* call has the content that process gives the same tool, arguments and
\* outcome when it runs the call inline.
C21_ApproveExecEquivalence ==
  [][\A i \in (Len(toolLog) + 1)..Len(toolLog') :
       toolLog'[i].via = "approve" =>
         messages'[Len(messages')].content =
           invokeTool(toolLog'[i].toolName, toolLog'[i].toolArgs,
                      toolLog'[i].outcome).content]_vars

AllConfigs ==
  {[thread_id |-> t, checkpoint_ns |-> Some(ns), checkpoint_id |-> id] :
     t \in ThreadIds, ns \in Namespaces, id \in {None} \cup {Some(i) : i \in CheckpointIds}}

ListOptions ==
  {[limit |-> l, before |-> b, filter |-> f] :
     l \in {None, Some(1), Some(2)},
     b \in {None} \cup {Some(i) : i \in CheckpointIds},
     f \in {{}, {<<"source", "input">>}}}

\* C22: deleteThread(t) removes every checkpoint and every pending write of
\* t, in every namespace, in one step: afterwards getTuple for t returns no
\* tuple and list for t yields nothing, and getTuple and list for every other
\* thread return what they returned before.
C22_DeleteThreadFrame ==
  [][saver'.op.name = "deleteThread" =>
       /\ \A r \in saver'.checkpoints \cup saver'.writes : r.thread_id # saver'.op.threadId
       /\ \A c \in AllConfigs :
            IF c.thread_id = saver'.op.threadId
            THEN /\ getTuple(saver', c) = {None}
                 /\ \A o \in ListOptions : list(saver', c, o) = {<<>>}
            ELSE /\ getTuple(saver', c) = getTuple(setup(saver), c)
                 /\ \A o \in ListOptions : list(saver', c, o) = list(setup(saver), c, o)]_vars

C22_Witness ==
  /\ saver.op.name = "deleteThread"
  /\ saver.op.threadId = "t1"
  /\ saver.rowid = 3
  /\ \E r \in saver.checkpoints : r.thread_id = "t2"
  /\ saver.ops = 0

\* what put(input) followed by getTuple(returned config) must give on store s
RoundTrip(s, op) ==
  \A got \in getTuple(s, op.result) :
       /\ got # None
       /\ Val(got).config = op.result
       /\ Val(got).checkpoint = op.input.checkpoint
       /\ Val(got).metadata = op.input.metadata
       /\ Val(got).parentConfig =
            IF op.input.config.checkpoint_id = None THEN None
            ELSE Some([op.result EXCEPT !.checkpoint_id = op.input.config.checkpoint_id])

\* C23: put followed by getTuple of the returned config gives back the
\* checkpoint and the metadata that were put, with parentConfig at the
\* incoming config's checkpoint id, whether the row was inserted or replaced
\* an earlier one; a new checkpointer on the same database returns the same
\* tuples.
C23_PutGetRoundTrip ==
  [][/\ saver'.op.name = "put" =>
          /\ RoundTrip(saver', saver'.op)
          /\ RoundTrip(setup([saver' EXCEPT !.isSetup = FALSE]), saver'.op)
     /\ saver'.op.name = "restart" =>
          \A c \in AllConfigs : getTuple(setup(saver'), c) = getTuple(saver, c)]_vars

C23_Witness ==
  /\ saver.op.name = "put"
  /\ saver.op.replaced
  /\ saver.op.input.config.checkpoint_id # None
  /\ RoundTrip(saver, saver.op)

RowsOf(s, threadId, checkpointNs) ==
  {r \in s.checkpoints : r.thread_id = threadId /\ r.checkpoint_ns = checkpointNs}

\* C24: without a checkpoint id, getTuple returns the checkpoint of (thread,
\* namespace) that was put last; with a checkpoint id it returns that
\* checkpoint of that thread and namespace, or no tuple.
C24_GetTupleLatest ==
  \A c \in AllConfigs :
    \A got \in getTuple(setup(saver), c) :
      LET rows == RowsOf(saver, c.thread_id, Val(c.checkpoint_ns)) IN
      IF c.checkpoint_id = None
      THEN IF rows = {} THEN got = None
           ELSE /\ got # None
                /\ \E r \in rows :
                     /\ \A q \in rows : q.rowid <= r.rowid
                     /\ Val(got).config = ConfigOf(r.thread_id, r.checkpoint_ns, r.checkpoint_id)
                     /\ Val(got).checkpoint = r.checkpoint.bytes
      ELSE IF \E r \in rows : r.checkpoint_id = Val(c.checkpoint_id)
      THEN /\ got # None
           /\ \E r \in rows :
                /\ r.checkpoint_id = Val(c.checkpoint_id)
                /\ Val(got).config = c
                /\ Val(got).checkpoint = r.checkpoint.bytes
      ELSE got = None

\* the rows that a list call is about: of the thread and namespace, created
\* strictly before the `before` checkpoint (when it exists), metadata equal
\* to the filter on every filter key
Matching(s, c, o) ==
  {r \in RowsOf(s, c.thread_id, Val(c.checkpoint_ns)) :
     /\ o.before # None =>
          \A b \in RowsOf(s, c.thread_id, Val(c.checkpoint_ns)) :
            b.checkpoint_id = Val(o.before) => r.created_at < b.created_at
     /\ \A kv \in o.filter : loadsTyped(r.metadata_type, r.metadata)[kv[1]] = kv[2]}

\* C25: list yields the matching checkpoints newest first, truncated to
\* limit: when at least limit matching checkpoints exist, exactly limit of
\* them, the newest ones.
C25_ListLimitAfterFilter ==
  \A c \in {k \in AllConfigs : k.checkpoint_id = None} :
    \A o \in ListOptions :
      \A result \in list(setup(saver), c, o) :
        LET m == Matching(setup(saver), c, o)
            ids == {result[i].config.checkpoint_id : i \in 1..Len(result)}
            yielded == {r \in m : Some(r.checkpoint_id) \in ids}
        IN /\ Len(result) = IF o.limit # None /\ Val(o.limit) < Cardinality(m)
                            THEN Val(o.limit) ELSE Cardinality(m)
           /\ Cardinality(yielded) = Len(result)
           /\ \A r \in yielded : \A q \in m \ yielded : q.created_at <= r.created_at

\* the rows of s.writes under the keys of a putWrites call
CallRows(s, op) ==
  {w \in s.writes :
     /\ w.thread_id = op.config.thread_id
     /\ w.checkpoint_ns = OrElse(op.config.checkpoint_ns, "")
     /\ Some(w.checkpoint_id) = op.config.checkpoint_id
     /\ w.task_id = op.taskId
     /\ w.idx < Len(op.writes)}

RECURSIVE OfTask(_, _)
OfTask(pending, taskId) ==
  IF pending = <<>> THEN <<>>
  ELSE IF pending[1][1] = taskId
  THEN << <<pending[1][2], pending[1][3]>> >> \o OfTask(Tail(pending), taskId)
  ELSE OfTask(Tail(pending), taskId)

\* C26: putWrites is all-or-nothing: when it returns, every write of the
\* call is stored under (thread, namespace, checkpoint id, task id, idx) with
\* idx its position, in place of any earlier write with that key, and
\* getTuple shows them all; when it throws (a failing insert, or no
\* checkpoint id in the config), no write is stored.  No other row changes.
C26_PutWritesAtomic ==
  [][saver'.op.name = "putWrites" =>
       IF saver'.op.threw
       THEN saver'.writes = setup(saver).writes
       ELSE /\ saver'.writes \ CallRows(saver', saver'.op)
                 = setup(saver).writes \ CallRows(setup(saver), saver'.op)
            /\ Cardinality(CallRows(saver', saver'.op)) = Len(saver'.op.writes)
            /\ \A i \in 1..Len(saver'.op.writes) :
                 \E w \in CallRows(saver', saver'.op) :
                   /\ w.idx = i - 1
                   /\ w.channel = saver'.op.writes[i][1]
                   /\ w.type = "json"
                   /\ w.value = IF saver'.op.writes[i][2] = None THEN None
                                ELSE Some(dumpsTyped(Val(saver'.op.writes[i][2]))[2])
            /\ \A got \in getTuple(saver', saver'.op.config) :
                 got # None =>
                   LET seen == OfTask(Val(got).pendingWrites, saver'.op.taskId) IN
                   /\ Len(seen) >= Len(saver'.op.writes)
                   /\ SubSeq(seen, 1, Len(saver'.op.writes)) = saver'.op.writes]_vars

C26_Witness ==
  /\ saver.op.name = "putWrites"
  /\ ~saver.op.threw
  /\ Len(saver.op.writes) = 2
  /\ getTuple(saver, saver.op.config) # {None}
  /\ Cardinality(saver.writes) >= 3

NoOptions == [limit |-> None, before |-> None, filter |-> {}]

\* what setup must make of the rows it finds
WithDefaults(row) ==
  [row EXCEPT !.checkpoint_type = IF @ = NoColumn THEN "json" ELSE @,
              !.metadata_type = IF @ = NoColumn THEN "json" ELSE @]

\* C27: the first operation of a checkpointer migrates in place: the type
\* columns exist afterwards, a row that lacked them has 'json', every row
\* that was there is still returned by getTuple and list, and running setup
\* again, in the same or in a new checkpointer, changes nothing.
C27_SetupMigratesInPlace ==
  [][(~saver.isSetup /\ saver'.isSetup) =>
       LET m == setup(saver) IN
       /\ m.checkpointColumns = Some(CheckpointTypeColumns)
       /\ m.writeColumns = Some(WriteTypeColumns)
       /\ m.checkpoints = {WithDefaults(r) : r \in saver.checkpoints}
       /\ Cardinality(m.writes) = Cardinality(saver.writes)
       /\ \A r \in saver.checkpoints :
            LET c == ConfigOf(r.thread_id, r.checkpoint_ns, r.checkpoint_id) IN
            /\ \A got \in getTuple(m, c) :
                 /\ got # None
                 /\ Val(got).checkpoint = r.checkpoint.bytes
                 /\ Val(got).metadata = r.metadata.bytes
                 /\ Len(Val(got).pendingWrites) =
                      Cardinality({w \in saver.writes : /\ w.thread_id = r.thread_id
                                                        /\ w.checkpoint_ns = r.checkpoint_ns
                                                        /\ w.checkpoint_id = r.checkpoint_id})
            /\ \A yielded \in list(m, c, NoOptions) :
                 \E i \in 1..Len(yielded) :
                   /\ yielded[i].config = c
                   /\ yielded[i].checkpoint = r.checkpoint.bytes
       /\ setup(m) = m
       /\ setup([m EXCEPT !.isSetup = FALSE]) = m
       /\ saver'.op.name = "getTuple" =>
            /\ saver'.checkpoints = m.checkpoints
            /\ saver'.writes = m.writes]_vars

C27_Witness ==
  /\ saver.isSetup
  /\ saver.op.name = "getTuple"
  /\ saver.op.result # None
  /\ saver.ops = MaxStoreOps - 1
  /\ \E r \in saver.checkpoints : r.rowid = 1 /\ r.checkpoint_type = "json"
  /\ \E w \in saver.writes : w.type = "json"

\* the first stream call on a fresh thread has ended after one node step,
\* the supervisor's, with a complete event
DirectAnswer ==
  /\ ~running
  /\ fuel.streams = MaxStreams - 1
  /\ steps = 1
  /\ lastNode = Some(SUPERVISOR)
  /\ lastEvent # None
  /\ Val(lastEvent).type = "complete"

\* C28: a direct-answer turn on a fresh thread runs no worker and no tool,
\* its complete event carries the supervisor's finalResponse, and messages
\* has length 2: the user message and the assistant's final answer.
C28_DirectAnswerTurn ==
  DirectAnswer =>
    /\ toolLog = <<>>
    /\ currentWorker = None
    /\ finalResponse = Some(Val(lastEvent).data)
    /\ Len(messages) = 2

NonSystem(input) == {i \in 1..Len(input) : input[i].type # "system"}

\* C29: the messages passed to the routing model are one system message, at
\* most MAX_MESSAGES_FOR_SUPERVISOR non-system messages that are the most
\* recent suffix of the transcript, and the directive: the number of
\* non-system messages less one is at most 20, with or without a task
\* summary.
C29_SupervisorInputBounded ==
  (running /\ nextNodes = Some(SUPERVISOR)) =>
    LET input == supervisorMessages(messages, taskSummary) IN
    /\ input[1].type = "system"
    /\ input[Len(input)].content = DecideDirective
    /\ Cardinality(NonSystem(input)) - 1 <= MAX_MESSAGES_FOR_SUPERVISOR

\* C30: once the first sensitive call of an assistant message is deferred as
\* the pending action, no later call of that message is executed in that
\* worker step (tool call ids follow the order of the calls).
C30_NoExecutionAfterDeferral ==
  [][(WorkerNode /\ pendingAction' # None) =>
       \A i \in (Len(toolLog) + 1)..Len(toolLog') :
         toolLog'[i].id < Val(pendingAction').id]_vars

\* A thread on which approveAction / denyAction has committed its decision
\* and that has not been resumed yet.
Decided == ~running /\ nextNodes # None /\ ~awaitingApproval /\ pendingAction = None

\* C31: the resume after an approve / deny decision (the stream call with
\* the empty text) drives the graph with an empty delta: it appends no
\* message and changes no channel.
C31_ResumeEmptyDelta ==
  [][(Decided /\ StreamStart /\ ~AsksNewTurn) =>
       /\ messages' = messages
       /\ chans' = chans]_vars

\* the results of route that end the turn with the given text
RouteEnds(text) ==
  /\ next' = END
  /\ finalResponse' = Some(text)
  /\ currentWorker' = None

DecisionResult(d) ==
  IF d.next = "FINISH"
  THEN [next |-> END,
        finalResponse |-> IF d.finalResponse \in {None, Some("")}
                          THEN Some("Task completed.") ELSE d.finalResponse,
        currentWorker |-> None]
  ELSE [next |-> d.next, finalResponse |-> None, currentWorker |-> Some(d.next)]

\* the model is called and answers
ModelDecides ==
  /\ iterationCount < MAX_ITERATIONS
  /\ OrElse(error, "") = ""
  /\ finalResponse' # Some(RoutingFailedMessage)

C34_WorkerEdgePriority ==
  [][WorkerNode =>
       \E w \in WORKER_NAMES :
         /\ nextNodes = Some(w)
         /\ nextNodes' = Some(IF awaitingApproval' THEN HUMAN_APPROVAL
                              ELSE IF taskComplete' THEN SUPERVISOR
                              ELSE IF workerIterationCount' >= MAX_WORKER_ITERATIONS
                                   THEN SUPERVISOR
                              ELSE w)]_vars

\* a step that defers a sensitive call and has reached the iteration limit
C34_Witness ==
  /\ lastNode # None
  /\ Val(lastNode) \in WORKER_NAMES
  /\ awaitingApproval
  /\ pendingAction # None
  /\ workerIterationCount = MAX_WORKER_ITERATIONS
  /\ nextNodes = Some(HUMAN_APPROVAL)

\* C35: a supervisor node execution increases iterationCount by exactly 1,
\* sets workerIterationCount = 0 and taskComplete = false and leaves
\* messages, pendingAction, awaitingApproval, error and taskSummary
\* unchanged; a worker node execution increases workerIterationCount by
\* exactly 1 and leaves iterationCount, next, finalResponse and error unchanged.
C35_NodeCountersAndFrame ==
  [][/\ SupervisorNode =>
          /\ iterationCount' = iterationCount + 1
          /\ workerIterationCount' = 0
          /\ taskComplete' = FALSE
          /\ UNCHANGED <<messages, pendingAction, awaitingApproval, error, taskSummary>>
     /\ WorkerNode =>
          /\ workerIterationCount' = workerIterationCount + 1
          /\ UNCHANGED <<iterationCount, next, finalResponse, error>>]_vars

\* a supervisor step and two worker steps have run in one turn
C35_Witness ==
  /\ lastNode # None
  /\ Val(lastNode) \in WORKER_NAMES
  /\ iterationCount = 1
  /\ workerIterationCount = 2
  /\ messages # <<>>

\* worker_started, then tool_call and tool_result events in turn
Alternating(evs) ==
  /\ evs # <<>>
  /\ evs[1].type = "worker_started"
  /\ Len(evs) % 2 = 1
  /\ \A i \in 2..Len(evs) :
       evs[i].type = IF i % 2 = 0 THEN "tool_call" ELSE "tool_result"

\* worker_started, then one tool_call event that lists every call of the
\* assistant message, then one tool_result event per call
Batched(evs) ==
  /\ evs # <<>>
  /\ evs[1].type = "worker_started"
  /\ Len(evs) > 1 =>
       /\ evs[2].type = "tool_call"
       /\ Len(evs[2].data) = Len(evs) - 2
       /\ Len(evs) > 2
       /\ \A i \in 3..Len(evs) : evs[i].type = "tool_result"

\* what follows the tool events of a worker invocation: the supervisor
\* emits routing and hands over to a worker, or nothing and ends; the end
\* of the stream call emits at most one event; routing is emitted only for
\* a supervisor decision whose next is not END.
ClosingEvents ==
  /\ SupervisorNode =>
       \/ events' = <<>> /\ next' = END
       \/ /\ events' = << [type |-> "routing", data |-> next'] >>
          /\ next' # END
          /\ nextNodes' = Some(next')
  /\ StreamFinish =>
       /\ Len(events') <= 1
       /\ \A i \in 1..Len(events') :
            events'[i].type \in {"approval_required", "complete", "error"}
  /\ \A i \in 1..Len(events') :
       events'[i].type = "routing" => SupervisorNode /\ next' # END

\* C36 as stated: the events of one worker node invocation are
\* worker_started, then for each tool call a tool_call event followed by
\* its tool_result event, then at most one of approval_required / routing /
\* complete; routing is emitted only for a supervisor decision whose next is
\* not END.
C36_EventOrder ==
  [][/\ WorkerNode => Alternating(events')
     /\ ClosingEvents]_vars

\* C36 amended: the events of one worker node invocation are worker_started,
\* then, when the assistant message has tool calls, one tool_call event
\* listing all of them followed by one tool_result event per call, then at
\* most one of approval_required / routing / complete; routing is emitted
\* only for a supervisor decision whose next is not END.
C36_EventOrderBatched ==
  [][/\ WorkerNode => Batched(events')
     /\ ClosingEvents]_vars

\* a worker step whose assistant message has two tool calls
C36_Witness ==
  /\ lastNode # None
  /\ Val(lastNode) \in WORKER_NAMES
  /\ Len(events) = 4
  /\ events[2].type = "tool_call"
  /\ Len(events[2].data) = 2
  /\ events[4].type = "tool_result"

\* the tool calls of the assistant message that the worker step appends
StepCalls == messages'[Len(messages) + 1].tool_calls

ReadOnlyCommands ==
  {"ls", "dir", "cat", "type", "echo", "pwd", "ps", "tasklist", "whoami", "ping"}

ReadOnlySubcommands(base) ==
  IF base = "git"
  THEN {"status", "log", "diff", "branch", "remote", "show", "ls-files", "ls-tree"}
  ELSE IF base = "npm"
  THEN {"list", "ls", "view", "info", "search", "outdated", "audit"}
  ELSE {}

\* the commands the classification is to call safe
SafeCommand(command) ==
  /\ command # <<>>
  /\ \/ /\ command[1] \in ReadOnlyCommands
        /\ \A i \in 1..Len(command) : command[i] # ">"
     \/ /\ Len(command) >= 2
        /\ command[2] \in ReadOnlySubcommands(command[1])

C38_TaskSummaryKept ==
  [][/\ taskSummary # None => taskSummary' # None
     /\ taskSummary' # taskSummary => WorkerNode /\ taskSummary' # None
     /\ (taskSummary' # None /\ nextNodes' = Some(SUPERVISOR)) =>
          supervisorMessages(messages', taskSummary')[2]
            = HumanMessage("[Previous Task Summary]: " \o Val(taskSummary'))]_vars

\* a new turn has started on a thread whose last worker step left a summary
C38_Witness ==
  /\ running
  /\ lastNode = Some("__start__")
  /\ nextNodes = Some(SUPERVISOR)
  /\ iterationCount = 0
  /\ taskSummary # None
  /\ messages[Len(messages)].type = "human"

\* handler d has thrown the given message and nothing else has happened
Rejected(d, message) ==
  /\ deciders'[d].phase = "failed"
  /\ deciders'[d].thrown = Some(message)
  /\ ~deciders'[d].committed
  /\ toolLog' = toolLog
  /\ chans' = chans
  /\ nextNodes' = nextNodes
  /\ lastNode' = lastNode

\* handler d is called in this step
Called(d, kind) ==
  /\ deciders[d].phase = "idle"
  /\ deciders'[d].phase # "idle"
  /\ deciders'[d].kind = kind

\* C39: approveAction on a thread with no pendingAction or no currentWorker
\* and denyAction on a thread with no pendingAction throw ("No pending
\* action to approve" / "... to deny"), invoke no tool and leave the thread
\* state unchanged, also later on; so an approve or deny issued after
\* another one has completed fails and has no effect.
C39_NoPendingActionRejected ==
  [][\A d \in Handlers :
       /\ (Called(d, "approve") /\ (pendingAction = None \/ currentWorker = None)) =>
            Rejected(d, "No pending action to approve")
       /\ (Called(d, "deny") /\ pendingAction = None) =>
            Rejected(d, "No pending action to deny")
       /\ (/\ deciders[d].phase = "idle"
           /\ deciders'[d].phase # "idle"
           /\ \E e \in Handlers : deciders[e].phase = "done") =>
            /\ deciders'[d].phase = "failed"
            /\ toolLog' = toolLog
            /\ chans' = chans
       /\ deciders[d].phase = "failed" => deciders'[d] = deciders[d]]_vars

\* an approve has completed and a second approve, issued afterwards, has failed
C39_Witness ==
  \E d, e \in Handlers :
    /\ deciders[d].phase = "done"
    /\ deciders[d].kind = "approve"
    /\ deciders[e].phase = "failed"
    /\ deciders[e].thrown = Some("No pending action to approve")
    /\ Cardinality({i \in 1..Len(toolLog) : toolLog[i].via = "approve"}) = 1
    /\ pendingAction = None

\* the entries of the tool log made by approveAction for the call with this id
ApprovedRuns(id) == {i \in 1..Len(toolLog) : toolLog[i].via = "approve" /\ toolLog[i].id = id}

\* C40: for every interleaving of concurrent approveAction and denyAction
\* calls on one paused thread, the pending action's tool is invoked at most
\* once, and not at all if the committed outcome is the denial.
C40_DecisionRaceInvokesOnce ==
  /\ \A i \in 1..Len(toolLog) : Cardinality(ApprovedRuns(toolLog[i].id)) <= 1
  /\ (/\ \E d \in Handlers : deciders[d].kind = "deny" /\ deciders[d].committed
      /\ \A d \in Handlers : deciders[d].kind = "approve" => ~deciders[d].committed) =>
       \A i \in 1..Len(toolLog) : toolLog[i].via # "approve"

====
